---- MODULE Spec2Model ----
(***************************************************************************)
(* A model of src/index.tsx: the bulk generation runner                    *)
(* (runBulkGeneration), the generate-button click handler, the single      *)
(* image operations that share the page with it (edit, upscale, remix,     *)
(* standard generation), the watermark stage, the history store, the       *)
(* export of a bulk run (downloadBulkZip) and the size and placement       *)
(* computations of compressImage and applyWatermark.                       *)
(*                                                                         *)
(* One action is one browser task: a handler or a promise continuation     *)
(* run to its next await on something that settles in a later task (a      *)
(* network call, an image decode, a timer).  An await on a promise that is *)
(* already settled continues in a microtask of the same task, so it does   *)
(* not end the action.                                                     *)
(***************************************************************************)
EXTENDS Integers, Sequences, FiniteSets, TLC

\* ------------------------------------------------------------ bounds
\* Number of runBulkGeneration invocations in one behaviour.
MaxRuns == 2
\* Number of single image operations (edit, upscale, remix, standard
\* generation) started in one behaviour.
MaxOps == 1
\* Longest prompt line the user submits to a bulk run; history clicks write
\* ever longer labels ("Bulk: Bulk: ...") into the prompt box.
MaxPromptLen == 4
\* Longest text of the prompt box in the specification SpecPrompts.
MaxTextLen == 4

\* ------------------------------------------------------------ constants
MAX_HISTORY_ITEMS == 5
BulkDelayMs == 2000

\* ------------------------------------------------------------ strings
\* A string is a sequence of one-character strings.
NL == "\n"
Whitespace == {" ", NL, "\t"}

RECURSIVE TrimStart(_)
TrimStart(s) ==
    IF s # <<>> /\ Head(s) \in Whitespace THEN TrimStart(Tail(s)) ELSE s

RECURSIVE TrimEnd(_)
TrimEnd(s) ==
    IF s # <<>> /\ s[Len(s)] \in Whitespace
    THEN TrimEnd(SubSeq(s, 1, Len(s) - 1))
    ELSE s

\* String.prototype.trim
Trim(s) == TrimEnd(TrimStart(s))

\* String.prototype.split(sep) for a one-character separator: the pieces
\* between the separators, empty pieces included ("" splits into [""]).
RECURSIVE Split(_, _)
Split(s, sep) ==
    IF \A k \in 1..Len(s) : s[k] # sep
    THEN <<s>>
    ELSE LET k == CHOOSE j \in 1..Len(s) :
                      s[j] = sep /\ \A m \in 1..(j - 1) : s[m] # sep
         IN <<SubSeq(s, 1, k - 1)>> \o Split(SubSeq(s, k + 1, Len(s)), sep)

MapTrim(ps) == [k \in 1..Len(ps) |-> Trim(ps[k])]

NonEmpty(p) == Len(p) > 0

\* Mutants of BulkPrompts: the lines filtered without being trimmed first,
\* and the lines trimmed but not filtered.
BulkPromptsUntrimmed(text) == SelectSeq(Split(text, NL), NonEmpty)
BulkPromptsUnfiltered(text) == MapTrim(Split(text, NL))

\* prompt.split('\n').map(p => p.trim()).filter(p => p.length > 0)
BulkPrompts(text) == SelectSeq(MapTrim(Split(text, NL)), NonEmpty)

\* The labels under which results are saved to the history.
BulkLabel == <<"B", "u", "l", "k", ":", " ">>
\* `Bulk: ${item.prompt}`
EditLabel == <<"E", "d", "i", "t", ":", " ">>
\* `Edit: ${editPrompt}`
UpscaleLabel ==
    <<"U", "p", "s", "c", "a", "l", "e", "d", " ", "4", "K", " ", "I", "m", "a", "g", "e">>
DefaultLabel ==
    <<"I", "m", "a", "g", "e", " ", "G", "e", "n", "e", "r", "a", "t", "i", "o", "n">>
\* What generateRemixPrompt answers and what the user types into the edit box.
RemixedPrompt == <<"r", "e", "m", "i", "x">>
EditPrompt == <<"x">>

Range(s) == {s[k] : k \in 1..Len(s)}

\* ------------------------------------------------------------ images
\* A data URL, by its MIME type.
Image(mime) == [mime |-> mime]
\* No image: an undefined imageUrl, an empty src.
NoImage == Image("")

\* ------------------------------------------------------------ generateImage
\* The responses of ai.models.generateContent the model draws from: a
\* rejected call, or a response with at most one candidate.
Part(data, mime, text) == [data |-> data, mime |-> mime, text |-> text]
\* hasParts is FALSE when candidate.content?.parts is undefined.
Candidate(hasParts, parts, finishReason) ==
    [hasParts |-> hasParts, parts |-> parts, finishReason |-> finishReason]

ImageResponse == [rejected |-> FALSE,
                  candidates |-> <<Candidate(TRUE, <<Part("", "", "here"), Part("d", "", "")>>, "STOP")>>]
RefusalResponse == [rejected |-> FALSE,
                    candidates |-> <<Candidate(TRUE, <<Part("", "", "refused")>>, "STOP")>>]
SafetyResponse == [rejected |-> FALSE,
                   candidates |-> <<Candidate(FALSE, <<>>, "SAFETY")>>]
EmptyResponse == [rejected |-> FALSE, candidates |-> <<>>]
RejectedResponse == [rejected |-> TRUE, candidates |-> <<>>]

Responses == {ImageResponse, RefusalResponse, SafetyResponse, EmptyResponse,
              RejectedResponse}

Return(v) == [ok |-> TRUE, value |-> v]
Throw(e) == [ok |-> FALSE, error |-> e]

handleGenerationError(candidate) ==
    IF candidate.finishReason # "" /\ candidate.finishReason # "STOP"
    THEN IF candidate.finishReason = "IMAGE_OTHER"
         THEN Throw("The model blocked the generation (IMAGE_OTHER)")
         ELSE IF candidate.finishReason = "SAFETY"
         THEN Throw("Generation blocked due to safety settings")
         ELSE Throw("Generation stopped")
    ELSE Return("")

\* The first part with non-empty inline data, if any.
ImageParts(parts) == {k \in 1..Len(parts) : parts[k].data # ""}
TextParts(parts) == {k \in 1..Len(parts) : parts[k].text # ""}
First(S) == CHOOSE k \in S : \A m \in S : k <= m

\* Mutant of generateImage: the text parts are looked at before the images.
generateImageTextFirst(response) ==
    IF response.rejected THEN Throw("request failed")
    ELSE IF response.candidates = <<>>
    THEN Throw("The model failed to generate an image.")
    ELSE LET candidate == response.candidates[1]
             parts == candidate.parts
             handled == handleGenerationError(candidate)
         IN IF candidate.hasParts /\ TextParts(parts) # {}
            THEN Throw(parts[First(TextParts(parts))].text)
            ELSE IF candidate.hasParts /\ ImageParts(parts) # {}
            THEN LET part == parts[First(ImageParts(parts))]
                 IN Return(Image(IF part.mime # "" THEN part.mime ELSE "image/png"))
            ELSE IF ~handled.ok THEN handled
            ELSE Throw("The model failed to generate an image.")

\* generateImage on the response of generateContent: the data URL of the
\* image it returns, or the error it throws.
generateImage(response) ==
    IF response.rejected THEN Throw("request failed")
    ELSE IF response.candidates = <<>>
    THEN Throw("The model failed to generate an image.")
    ELSE LET candidate == response.candidates[1]
             parts == candidate.parts
             handled == handleGenerationError(candidate)
         IN IF candidate.hasParts /\ ImageParts(parts) # {}
            THEN LET part == parts[First(ImageParts(parts))]
                 IN Return(Image(IF part.mime # "" THEN part.mime ELSE "image/png"))
            ELSE IF candidate.hasParts /\ TextParts(parts) # {}
            THEN Throw(parts[First(TextParts(parts))].text)
            ELSE IF ~handled.ok THEN handled
            ELSE Throw("The model failed to generate an image.")

\* ------------------------------------------------------------ applyWatermark
\* What the page and the browser give one applyWatermark call: the toggle,
\* the selected kind, the uploaded logo, and whether the images decode and
\* the canvas yields a context.
WatermarkEnv(type, logo, imgDecodes, ctx) ==
    [type |-> type, logo |-> logo, imgDecodes |-> imgDecodes, ctx |-> ctx]

WatermarkEnvs ==
    {WatermarkEnv("text", "none", TRUE, TRUE),
     WatermarkEnv("text", "none", FALSE, TRUE),
     WatermarkEnv("image", "bad", TRUE, TRUE)}

\* canvas.toDataURL('image/png') of the image with the watermark drawn on it.
Watermarked(img) == Image("image/png")

\* Mutants of applyWatermark: an image that does not decode gives the empty
\* canvas, and a logo that does not decode gives the canvas without a logo.
applyWatermarkBlankOnError(base64Image, env) ==
    IF ~env.imgDecodes THEN Image("image/png")
    ELSE IF ~env.ctx THEN base64Image
    ELSE IF env.type = "text" THEN Watermarked(base64Image)
    ELSE IF env.type = "image" /\ env.logo # "none"
    THEN IF env.logo = "ok" THEN Watermarked(base64Image) ELSE base64Image
    ELSE Image("image/png")

applyWatermarkWithoutLogo(base64Image, env) ==
    IF ~env.imgDecodes THEN base64Image
    ELSE IF ~env.ctx THEN base64Image
    ELSE IF env.type = "text" THEN Watermarked(base64Image)
    ELSE IF env.type = "image" /\ env.logo # "none"
    THEN IF env.logo = "ok" THEN Watermarked(base64Image) ELSE Image("image/png")
    ELSE Image("image/png")

\* The value applyWatermark resolves with once the toggle is checked; it
\* never rejects.
applyWatermark(base64Image, env) ==
    IF ~env.imgDecodes THEN base64Image
    ELSE IF ~env.ctx THEN base64Image
    ELSE IF env.type = "text" THEN Watermarked(base64Image)
    ELSE IF env.type = "image" /\ env.logo # "none"
    THEN IF env.logo = "ok" THEN Watermarked(base64Image) ELSE base64Image
    ELSE Image("image/png")

\* ------------------------------------------------------------ compressImage
compressImage(base64Str, decodes, ctx) ==
    IF ~decodes THEN Throw("image failed to load")
    ELSE IF ~ctx THEN Throw("Could not get canvas context")
    ELSE Return(Image("image/jpeg"))

\* ------------------------------------------------------------ saveToHistory
HistoryItem(prompt, imageUrl) == [prompt |-> prompt, imageUrl |-> imageUrl]

\* What the browser gives one saveToHistory call: whether the image decodes,
\* whether the stored history can be read and parsed, how many items fit
\* into the storage quota, whether setItem fails for another reason, and
\* whether renderHistory runs through.
SaveEnv(decodes, reads, quota, storageError, renders) ==
    [decodes |-> decodes, reads |-> reads, quota |-> quota,
     storageError |-> storageError, renders |-> renders]

SaveOk == SaveEnv(TRUE, TRUE, MAX_HISTORY_ITEMS, FALSE, TRUE)

SaveEnvs ==
    {SaveOk,
     SaveEnv(FALSE, TRUE, MAX_HISTORY_ITEMS, FALSE, TRUE),
     SaveEnv(TRUE, FALSE, MAX_HISTORY_ITEMS, FALSE, TRUE),
     SaveEnv(TRUE, TRUE, 0, FALSE, TRUE),
     SaveEnv(TRUE, TRUE, MAX_HISTORY_ITEMS, TRUE, TRUE),
     SaveEnv(TRUE, TRUE, MAX_HISTORY_ITEMS, FALSE, FALSE)}

\* localStorage.setItem throws QuotaExceededError when the list does not fit.
SetItemFits(history, env) == Len(history) <= env.quota

RECURSIVE EvictionLoopToEmpty(_, _, _, _)
RECURSIVE EvictionLoop(_, _, _, _)
\* Mutant of EvictionLoop: the loop goes on while an item is left.
EvictionLoopToEmpty(newHistory, stored, env, retries) ==
    IF Len(newHistory) > 0
    THEN LET popped == SubSeq(newHistory, 1, Len(newHistory) - 1)
         IN IF SetItemFits(popped, env) THEN [stored |-> popped, retries |-> retries + 1]
            ELSE EvictionLoopToEmpty(popped, stored, env, retries + 1)
    ELSE [stored |-> stored, retries |-> retries]

\* The eviction loop: drop the oldest item and try again while more than one
\* item is left; the stored value after the loop and the number of setItem
\* calls the loop made, counted from `retries`.
EvictionLoop(newHistory, stored, env, retries) ==
    IF Len(newHistory) > 1
    THEN LET popped == SubSeq(newHistory, 1, Len(newHistory) - 1)
         IN IF SetItemFits(popped, env) THEN [stored |-> popped, retries |-> retries + 1]
            ELSE EvictionLoop(popped, stored, env, retries + 1)
    ELSE [stored |-> stored, retries |-> retries]

\* The stored value after the eviction loop.
EvictAndRetry(newHistory, stored, env) == EvictionLoop(newHistory, stored, env, 0).stored

\* Mutant of Prepend: the new item is added behind the stored ones.
PrependBehind(item, history) ==
    LET all == history \o <<item>>
    IN SubSeq(all, 1, IF Len(all) < MAX_HISTORY_ITEMS THEN Len(all) ELSE MAX_HISTORY_ITEMS)

Prepend(item, history) ==
    LET all == <<item>> \o history
    IN SubSeq(all, 1, IF Len(all) < MAX_HISTORY_ITEMS THEN Len(all) ELSE MAX_HISTORY_ITEMS)

\* Mutant of saveToHistory: a failure of compressImage is not caught.
saveToHistoryThrows(prompt, imageUrl, stored, rendered, env) ==
    LET compressed == compressImage(imageUrl, env.decodes, TRUE)
        caught == [threw |-> FALSE, stored |-> stored, rendered |-> rendered]
    IN IF ~compressed.ok THEN [caught EXCEPT !.threw = TRUE]
       ELSE IF ~env.reads THEN caught
       ELSE LET newHistory == Prepend(HistoryItem(prompt, compressed.value), stored)
                written == IF env.storageError THEN stored
                           ELSE IF SetItemFits(newHistory, env) THEN newHistory
                           ELSE EvictAndRetry(newHistory, stored, env)
            IN [threw |-> FALSE, stored |-> written,
                rendered |-> IF env.renders THEN written ELSE rendered]

\* saveToHistory(prompt, imageUrl) on the stored history `stored` and the
\* rendered filmstrip `rendered`: whether it throws to its caller, and the
\* stored history and the filmstrip it leaves.
saveToHistory(prompt, imageUrl, stored, rendered, env) ==
    LET compressed == compressImage(imageUrl, env.decodes, TRUE)
        caught == [threw |-> FALSE, stored |-> stored, rendered |-> rendered]
    IN IF ~compressed.ok THEN caught
       ELSE IF ~env.reads THEN caught
       ELSE LET newHistory == Prepend(HistoryItem(prompt, compressed.value), stored)
                written == IF env.storageError THEN stored
                           ELSE IF SetItemFits(newHistory, env) THEN newHistory
                           ELSE EvictAndRetry(newHistory, stored, env)
            IN [threw |-> FALSE, stored |-> written,
                rendered |-> IF env.renders THEN written ELSE rendered]

\* ------------------------------------------------------------ state
VARIABLES
    promptEl,            \* value of the prompt textarea
    prompt,              \* module variable `prompt`
    currentMode,         \* checked generation-mode radio
    generateDisabled,    \* generateButton.disabled
    outputImage,         \* outputImage: [src, hidden]
    imageActionsHidden,  \* imageActionsContainer has class hidden
    editSectionHidden,   \* editSection has class hidden
    bulkDownloadHidden,  \* bulkDownloadButton has class hidden
    watermarkToggle,     \* watermark-toggle checked
    bulkQueue,           \* module variable bulkQueue: the ids of its items
    jobs,                \* the BulkItem objects ever created, by id
    bulkList,            \* ids of the rows in the bulkList element
    runs,                \* the invocations of runBulkGeneration
    ops,                 \* the single image operations in flight
    storedHistory,       \* localStorage[HISTORY_KEY], parsed
    historyContainer,    \* the history items rendered in the filmstrip
    zip,                 \* downloadBulkZip: window.JSZip, the archive, the download, the alert
    stage,               \* what the model API and the browser give the job in progress
    canvas,              \* one computation on a canvas: its inputs and its result
    uploads,             \* the media type and the uploaded images of the page
    click,               \* one click on Generate outside bulk mode: its position and its calls
    timers               \* loadingInterval, progressInterval and the intervals of the window

vars == <<promptEl, prompt, currentMode, generateDisabled, outputImage,
          imageActionsHidden, editSectionHidden, bulkDownloadHidden, watermarkToggle, bulkQueue, jobs, bulkList, runs, ops,
          storedHistory, historyContainer, zip, stage, canvas, uploads, click, timers>>

\* The variables no handler of the page and no step of a bulk run writes.
aux == <<zip, stage, canvas, uploads, click, timers>>

RunIds == 1..MaxRuns
OpIds == 1..MaxOps

Modes == {"standard", "bulk"}
OpKinds == {"generate", "edit", "upscale", "remix"}

\* Texts the user types into the prompt box.
PromptTexts ==
    {<<" ", NL, " ">>,
     <<"a", NL, NL, " ", "a">>}

\* type BulkItem = { id, prompt, status, imageUrl? }
BulkItem(id, p) == [id |-> id, prompt |-> p, status |-> "pending", imageUrl |-> NoImage]

NoItem == <<0, 0>>
IdleRun == [pc |-> "idle", i |-> 0, item |-> NoItem, base64 |-> NoImage, timer |-> 0]
FinishedRun == [IdleRun EXCEPT !.pc = "finished"]
IdleOp == [pc |-> "idle", kind |-> "generate", image |-> NoImage]
FinishedOp == [IdleOp EXCEPT !.pc = "finished"]

\* The page before any export, with JSZip loaded.
IdleZip == [loaded |-> TRUE, archives |-> <<>>, refused |-> 0, alert |-> ""]
\* No response and no browser behaviour fixed in advance.
IdleStage == [fixed |-> FALSE]
\* No canvas computation recorded.
IdleCanvas == [op |-> "none"]

\* Image media, nothing uploaded.
IdleUploads == [mediaType |-> "image", reference |-> FALSE, garment |-> FALSE,
                product |-> FALSE, nails |-> 0]
\* No click on Generate outside bulk mode yet.
IdleClick == [pc |-> "idle", i |-> 0, calls |-> <<>>, image |-> NoImage, applied |-> 0,
              shown |-> <<>>, saved |-> <<>>]
\* No interval created yet.
IdleTimers == [loadingInterval |-> 0, progressInterval |-> 0, active |-> {},
               inflight |-> <<>>, started |-> 0]

AuxIdle ==
    /\ zip = IdleZip
    /\ stage = IdleStage
    /\ canvas = IdleCanvas
    /\ uploads = IdleUploads
    /\ click = IdleClick
    /\ timers = IdleTimers

Init ==
    /\ promptEl = <<>>
    /\ prompt = <<>>
    /\ currentMode = "standard"
    /\ generateDisabled = FALSE
    /\ outputImage = [src |-> NoImage, hidden |-> TRUE]
    /\ imageActionsHidden = TRUE
    /\ editSectionHidden = FALSE
    /\ bulkDownloadHidden = TRUE
    /\ watermarkToggle = FALSE
    /\ bulkQueue = <<>>
    /\ jobs = <<>>
    /\ bulkList = {}
    /\ runs = [r \in RunIds |-> IdleRun]
    /\ ops = [o \in OpIds |-> IdleOp]
    /\ storedHistory = <<>>
    /\ historyContainer = <<>>
    /\ AuxIdle

\* ------------------------------------------------------------ runBulkGeneration
\* The part of the state a bulk run writes after its start.
BulkState == [jobs |-> jobs, runs |-> runs, generateDisabled |-> generateDisabled,
              bulkDownloadHidden |-> bulkDownloadHidden]

HasSuccess(js, queue) ==
    \E k \in 1..Len(queue) :
        js[queue[k]].status = "done" /\ js[queue[k]].imageUrl # NoImage

\* The code after the loop: the button is enabled again and the download
\* button is shown if a job of the queue succeeded.
Finished(r, b, queue) ==
    [b EXCEPT !.runs[r] = FinishedRun,
              !.generateDisabled = FALSE,
              !.bulkDownloadHidden = IF HasSuccess(b.jobs, queue) THEN FALSE ELSE @]

\* The loop from index i (1-based) up to its next await: an item without a
\* row is skipped; the first item with a row is set to generating and
\* generateImage is called for it; past the end of bulkQueue the run ends.
RECURSIVE ProcessLoop(_, _, _, _, _)
ProcessLoop(r, i, b, queue, rows) ==
    IF i > Len(queue) THEN Finished(r, b, queue)
    ELSE IF queue[i] \notin rows THEN ProcessLoop(r, i + 1, b, queue, rows)
    ELSE [b EXCEPT !.jobs[queue[i]].status = "generating",
                   !.runs[r] = [pc |-> "generate", i |-> i, item |-> queue[i],
                                base64 |-> NoImage, timer |-> 0]]

\* Mutant of AfterJob: the delay is taken after the last item as well.
AfterJobAlwaysDelays(r, b, queue, rows) ==
    LET i == b.runs[r].i
    IN IF i <= Len(queue)
       THEN [b EXCEPT !.runs[r].pc = "delay", !.runs[r].timer = BulkDelayMs,
                      !.runs[r].base64 = NoImage]
       ELSE ProcessLoop(r, i + 1, b, queue, rows)

\* The end of an iteration: the rate-limiting delay unless the item was the
\* last of bulkQueue.
AfterJob(r, b, queue, rows) ==
    LET i == b.runs[r].i
    IN IF i < Len(queue)
       THEN [b EXCEPT !.runs[r].pc = "delay", !.runs[r].timer = BulkDelayMs,
                      !.runs[r].base64 = NoImage]
       ELSE ProcessLoop(r, i + 1, b, queue, rows)

\* Mutants of JobFailed: the catch block leaves the loop, and the catch
\* block stores the message of the error in the item.
JobFailedEndsLoop(r, b, queue, rows) ==
    Finished(r, [b EXCEPT !.jobs[b.runs[r].item].status = "error"], queue)

JobFailedStoresMessage(r, b, queue, rows) ==
    LET item == b.jobs[b.runs[r].item]
        failed == [id |-> item.id, prompt |-> item.prompt, status |-> "error",
                   imageUrl |-> item.imageUrl, errorMessage |-> "failed"]
    IN AfterJob(r, [b EXCEPT !.jobs[b.runs[r].item] = failed], queue, rows)

\* The catch block.
JobFailed(r, b, queue, rows) ==
    AfterJob(r, [b EXCEPT !.jobs[b.runs[r].item].status = "error"], queue, rows)

\* The success block up to the call of saveToHistory, which awaits the
\* decoding of the image in compressImage.
JobSucceeded(r, b, base64) ==
    [b EXCEPT !.jobs[b.runs[r].item].status = "done",
              !.jobs[b.runs[r].item].imageUrl = base64,
              !.runs[r].pc = "save",
              !.runs[r].base64 = base64]

\* Mutant of AfterGenerate: the toggle is not looked at.
AfterGenerateAlwaysDecodes(r, b, base64, toggle) ==
    [b EXCEPT !.runs[r].pc = "watermark", !.runs[r].base64 = base64]

\* The continuation of `await applyWatermark(base64)`: with the toggle
\* missing or unchecked the input comes back in the same task, otherwise
\* the image is decoded first.
AfterGenerate(r, b, base64, toggle) ==
    IF ~toggle THEN JobSucceeded(r, b, base64)
    ELSE [b EXCEPT !.runs[r].pc = "watermark", !.runs[r].base64 = base64]

\* The continuation of `await saveToHistory(...)`.
AfterSave(r, b, queue, rows, threw) ==
    IF threw THEN JobFailed(r, b, queue, rows) ELSE AfterJob(r, b, queue, rows)

SetBulk(b) ==
    /\ jobs' = b.jobs
    /\ runs' = b.runs
    /\ generateDisabled' = b.generateDisabled
    /\ bulkDownloadHidden' = b.bulkDownloadHidden

\* The run a click starts: the invocations are numbered in start order.
NextRun == CHOOSE r \in RunIds : runs[r].pc = "idle" /\ \A q \in RunIds : q < r => runs[q].pc # "idle"
CanRun == \E r \in RunIds : runs[r].pc = "idle"

NewItems(r, prompts) == [k \in 1..Len(prompts) |-> BulkItem(<<r, k>>, Trim(prompts[k]))]

\* runBulkGeneration(prompts) up to its first await: the queue is replaced,
\* the rows are rebuilt, the button is disabled and the first job is started.
RunBulkGeneration(r, prompts) ==
    LET items == NewItems(r, prompts)
        queue == [k \in 1..Len(items) |-> items[k].id]
        rows == Range(queue)
        created == [id \in rows |-> items[id[2]]] @@ jobs
        b == [jobs |-> created, runs |-> runs, generateDisabled |-> TRUE,
              bulkDownloadHidden |-> TRUE]
    IN /\ bulkQueue' = queue
       /\ bulkList' = rows
       /\ outputImage' = [outputImage EXCEPT !.hidden = TRUE]
       /\ SetBulk(ProcessLoop(r, 1, b, queue, rows))

\* startLoadingAnimation
StartLoadingAnimation ==
    /\ outputImage' = [outputImage EXCEPT !.hidden = TRUE]
    /\ imageActionsHidden' = TRUE
    /\ editSectionHidden' = TRUE
    /\ generateDisabled' = TRUE

\* stopLoadingAnimation
StopLoadingAnimation ==
    generateDisabled' = FALSE

FreeOp == CHOOSE o \in OpIds : ops[o].pc = "idle" /\ \A q \in OpIds : q < o => ops[q].pc # "idle"
CanOp == \E o \in OpIds : ops[o].pc = "idle"

\* ------------------------------------------------------------ user events
\* The user replaces the text of the prompt box.
TypePrompt(text) ==
    /\ promptEl # text
    /\ promptEl' = text
    /\ UNCHANGED <<prompt, currentMode, generateDisabled, outputImage, imageActionsHidden,
                   editSectionHidden, bulkDownloadHidden, watermarkToggle,
                   bulkQueue, jobs, bulkList, runs, ops, storedHistory, historyContainer>>
    /\ UNCHANGED aux

\* The change handler of the generation-mode radios.
SelectMode(mode) ==
    /\ currentMode # mode
    /\ currentMode' = mode
    /\ editSectionHidden' = (mode = "bulk")
    /\ UNCHANGED <<promptEl, prompt, generateDisabled, outputImage, imageActionsHidden,
                   bulkDownloadHidden, watermarkToggle, bulkQueue, jobs,
                   bulkList, runs, ops, storedHistory, historyContainer>>
    /\ UNCHANGED aux

ToggleWatermark ==
    /\ watermarkToggle' = ~watermarkToggle
    /\ UNCHANGED <<promptEl, prompt, currentMode, generateDisabled, outputImage,
                   imageActionsHidden, editSectionHidden, bulkDownloadHidden, bulkQueue, jobs, bulkList, runs, ops, storedHistory, historyContainer>>
    /\ UNCHANGED aux

\* wrapper.onclick of the k-th item of the filmstrip.
HistoryClick(k) ==
    /\ k \in 1..Len(historyContainer)
    /\ currentMode' = "standard"
    /\ outputImage' = [src |-> historyContainer[k].imageUrl, hidden |-> FALSE]
    /\ imageActionsHidden' = FALSE
    /\ editSectionHidden' = FALSE
    /\ promptEl' = historyContainer[k].prompt
    /\ UNCHANGED <<prompt, generateDisabled, bulkDownloadHidden, watermarkToggle, bulkQueue,
                   jobs, bulkList, runs, ops, storedHistory, historyContainer>>
    /\ UNCHANGED aux

\* The click handler of the generate button in bulk mode with no prompt
\* left after trimming and filtering.
GenerateClickBulkEmpty ==
    /\ ~generateDisabled
    /\ currentMode = "bulk"
    /\ BulkPrompts(promptEl) = <<>>
    /\ prompt' = promptEl
    /\ UNCHANGED <<promptEl, currentMode, generateDisabled, outputImage, imageActionsHidden,
                   editSectionHidden, bulkDownloadHidden, watermarkToggle, bulkQueue, jobs,
                   bulkList, runs, ops, storedHistory, historyContainer>>
    /\ UNCHANGED aux

\* The click handler of the generate button in bulk mode.
GenerateClickBulk ==
    /\ ~generateDisabled
    /\ currentMode = "bulk"
    /\ BulkPrompts(promptEl) # <<>>
    /\ CanRun
    /\ \A k \in 1..Len(BulkPrompts(promptEl)) : Len(BulkPrompts(promptEl)[k]) <= MaxPromptLen
    /\ prompt' = promptEl
    /\ RunBulkGeneration(NextRun, BulkPrompts(promptEl))
    /\ UNCHANGED <<promptEl, currentMode, imageActionsHidden, editSectionHidden, watermarkToggle, ops, storedHistory, historyContainer>>
    /\ UNCHANGED aux

\* The click handler in standard mode with neither a prompt nor an upload.
GenerateClickInvalid ==
    /\ ~generateDisabled
    /\ currentMode = "standard"
    /\ promptEl = <<>>
    /\ prompt' = promptEl
    /\ UNCHANGED <<promptEl, currentMode, generateDisabled, outputImage, imageActionsHidden,
                   editSectionHidden, bulkDownloadHidden, watermarkToggle, bulkQueue, jobs,
                   bulkList, runs, ops, storedHistory, historyContainer>>
    /\ UNCHANGED aux

\* The click handler in standard mode: text to image.
GenerateClickStandard ==
    /\ ~generateDisabled
    /\ currentMode = "standard"
    /\ promptEl # <<>>
    /\ CanOp
    /\ prompt' = promptEl
    /\ StartLoadingAnimation
    /\ ops' = [ops EXCEPT ![FreeOp] = [pc |-> "api", kind |-> "generate", image |-> NoImage]]
    /\ UNCHANGED <<promptEl, currentMode, bulkDownloadHidden, watermarkToggle, bulkQueue,
                   jobs, bulkList, runs, storedHistory, historyContainer>>
    /\ UNCHANGED aux

\* ------------------------------------------------------------ bulk run steps
\* generateImage of run r settles: it returns an image or throws.
BulkGenerateSettles(r, response) ==
    /\ runs[r].pc = "generate"
    /\ LET result == generateImage(response)
       IN SetBulk(IF result.ok
                  THEN AfterGenerate(r, BulkState, result.value, watermarkToggle)
                  ELSE JobFailed(r, BulkState, bulkQueue, bulkList))
    /\ UNCHANGED <<promptEl, prompt, currentMode, outputImage, imageActionsHidden,
                   editSectionHidden, watermarkToggle, bulkQueue, bulkList, ops,
                   storedHistory, historyContainer>>
    /\ UNCHANGED aux

\* The image of applyWatermark has loaded or failed to load.
BulkWatermarkSettles(r, env) ==
    /\ runs[r].pc = "watermark"
    /\ SetBulk(JobSucceeded(r, BulkState, applyWatermark(runs[r].base64, env)))
    /\ UNCHANGED <<promptEl, prompt, currentMode, outputImage, imageActionsHidden,
                   editSectionHidden, watermarkToggle, bulkQueue, bulkList, ops,
                   storedHistory, historyContainer>>
    /\ UNCHANGED aux

\* saveToHistory of run r settles.
BulkSaveSettles(r, env) ==
    /\ runs[r].pc = "save"
    /\ LET saved == saveToHistory(BulkLabel \o jobs[runs[r].item].prompt, runs[r].base64,
                                  storedHistory, historyContainer, env)
       IN /\ storedHistory' = saved.stored
          /\ historyContainer' = saved.rendered
          /\ SetBulk(AfterSave(r, BulkState, bulkQueue, bulkList, saved.threw))
    /\ UNCHANGED <<promptEl, prompt, currentMode, outputImage, imageActionsHidden,
                   editSectionHidden, watermarkToggle, bulkQueue, bulkList, ops>>
    /\ UNCHANGED aux

\* The timer of the rate-limiting delay fires.
BulkDelayElapses(r) ==
    /\ runs[r].pc = "delay"
    /\ SetBulk(ProcessLoop(r, runs[r].i + 1, BulkState, bulkQueue, bulkList))
    /\ UNCHANGED <<promptEl, prompt, currentMode, outputImage, imageActionsHidden,
                   editSectionHidden, watermarkToggle, bulkQueue, bulkList, ops,
                   storedHistory, historyContainer>>
    /\ UNCHANGED aux

\* ------------------------------------------------------------ single operations
OutputShown == outputImage.src # NoImage /\ ~outputImage.hidden

\* The click handlers of the edit, upscale and remix buttons up to the
\* first call of the model.
OpClick(kind) ==
    /\ kind \in {"edit", "upscale", "remix"}
    /\ IF kind = "edit" THEN ~editSectionHidden ELSE ~imageActionsHidden
    /\ OutputShown
    /\ CanOp
    /\ StartLoadingAnimation
    /\ ops' = [ops EXCEPT ![FreeOp] = [pc |-> IF kind = "remix" THEN "remixPrompt" ELSE "api",
                                       kind |-> kind, image |-> outputImage.src]]
    /\ UNCHANGED <<promptEl, prompt, currentMode, bulkDownloadHidden, watermarkToggle,
                   bulkQueue, jobs, bulkList, runs, storedHistory, historyContainer>>
    /\ UNCHANGED aux

\* The catch and finally blocks of an operation.
OpFailed(o) ==
    /\ StopLoadingAnimation
    /\ ops' = [ops EXCEPT ![o] = FinishedOp]

\* generateRemixPrompt settles.
RemixPromptSettles(o, ok) ==
    /\ ops[o].pc = "remixPrompt"
    /\ IF ok
       THEN /\ promptEl' = RemixedPrompt
            /\ ops' = [ops EXCEPT ![o].pc = "api"]
            /\ UNCHANGED generateDisabled
       ELSE /\ OpFailed(o)
            /\ UNCHANGED promptEl
    /\ UNCHANGED <<prompt, currentMode, outputImage, imageActionsHidden, editSectionHidden,
                   bulkDownloadHidden, watermarkToggle, bulkQueue, jobs, bulkList, runs,
                   storedHistory, historyContainer>>
    /\ UNCHANGED aux

\* The result is shown and saveToHistory is called.
OpShow(o, image) ==
    /\ outputImage' = [src |-> image, hidden |-> FALSE]
    /\ imageActionsHidden' = FALSE
    /\ ops' = [ops EXCEPT ![o].pc = "save", ![o].image = image]

\* The image call of an operation settles.
OpApiSettles(o, response) ==
    /\ ops[o].pc = "api"
    /\ LET result == generateImage(response)
       IN IF ~result.ok
          THEN OpFailed(o) /\ UNCHANGED <<outputImage, imageActionsHidden>>
          ELSE /\ IF watermarkToggle
                  THEN /\ ops' = [ops EXCEPT ![o].pc = "watermark", ![o].image = result.value]
                       /\ UNCHANGED <<outputImage, imageActionsHidden>>
                  ELSE OpShow(o, result.value)
               /\ UNCHANGED generateDisabled
    /\ UNCHANGED <<promptEl, prompt, currentMode, editSectionHidden, bulkDownloadHidden,
                   watermarkToggle, bulkQueue, jobs, bulkList, runs, storedHistory,
                   historyContainer>>
    /\ UNCHANGED aux

OpWatermarkSettles(o, env) ==
    /\ ops[o].pc = "watermark"
    /\ OpShow(o, applyWatermark(ops[o].image, env))
    /\ UNCHANGED <<promptEl, prompt, currentMode, generateDisabled, editSectionHidden,
                   bulkDownloadHidden, watermarkToggle, bulkQueue, jobs, bulkList,
                   runs, storedHistory, historyContainer>>
    /\ UNCHANGED aux

OpLabel(o) ==
    IF ops[o].kind = "edit" THEN EditLabel \o EditPrompt
    ELSE IF ops[o].kind = "upscale" THEN UpscaleLabel
    ELSE IF ops[o].kind = "remix" THEN RemixedPrompt
    ELSE IF prompt # <<>> THEN prompt ELSE DefaultLabel

\* saveToHistory of an operation settles; the finally block runs.
OpSaveSettles(o, env) ==
    /\ ops[o].pc = "save"
    /\ LET saved == saveToHistory(OpLabel(o), ops[o].image, storedHistory,
                                  historyContainer, env)
       IN /\ storedHistory' = saved.stored
          /\ historyContainer' = saved.rendered
    /\ OpFailed(o)
    /\ UNCHANGED <<promptEl, prompt, currentMode, outputImage, imageActionsHidden,
                   editSectionHidden, bulkDownloadHidden, watermarkToggle, bulkQueue, jobs,
                   bulkList, runs>>
    /\ UNCHANGED aux

\* ------------------------------------------------------------ specification
Next ==
    \/ \E text \in PromptTexts : TypePrompt(text)
    \/ \E mode \in Modes : SelectMode(mode)
    \/ ToggleWatermark
    \/ \E k \in 1..MAX_HISTORY_ITEMS : HistoryClick(k)
    \/ GenerateClickBulkEmpty
    \/ GenerateClickBulk
    \/ GenerateClickInvalid
    \/ GenerateClickStandard
    \/ \E r \in RunIds, response \in Responses : BulkGenerateSettles(r, response)
    \/ \E r \in RunIds, env \in WatermarkEnvs : BulkWatermarkSettles(r, env)
    \/ \E r \in RunIds, env \in SaveEnvs : BulkSaveSettles(r, env)
    \/ \E r \in RunIds : BulkDelayElapses(r)
    \/ \E kind \in OpKinds : OpClick(kind)
    \/ \E o \in OpIds, ok \in BOOLEAN : RemixPromptSettles(o, ok)
    \/ \E o \in OpIds, response \in Responses : OpApiSettles(o, response)
    \/ \E o \in OpIds, env \in WatermarkEnvs : OpWatermarkSettles(o, env)
    \/ \E o \in OpIds, env \in SaveEnvs : OpSaveSettles(o, env)

Spec == Init /\ [][Next]_vars

\* ------------------------------------------------------------ SpecPrompts
\* The click handler of the generate button in bulk mode on every text of
\* at most MaxTextLen characters, on a fresh page and on a page whose
\* earlier bulk run of one job has finished.
Chars == {"a", "b", " ", NL}

RECURSIVE TextsOfLen(_)
TextsOfLen(n) ==
    IF n = 0 THEN {<<>>}
    ELSE {<<c>> \o t : c \in Chars, t \in TextsOfLen(n - 1)}

AllTexts == UNION {TextsOfLen(n) : n \in 0..MaxTextLen}

EarlierItem == [BulkItem(<<1, 1>>, <<"a">>) EXCEPT !.status = "done",
                                                  !.imageUrl = Image("image/png")]
EarlierHistory == <<HistoryItem(BulkLabel \o <<"a">>, Image("image/jpeg"))>>

InitPrompts ==
    /\ AuxIdle
    /\ promptEl \in AllTexts
    /\ prompt = <<>>
    /\ currentMode = "bulk"
    /\ generateDisabled = FALSE
    /\ outputImage = [src |-> NoImage, hidden |-> TRUE]
    /\ imageActionsHidden = TRUE
    /\ editSectionHidden = TRUE
    /\ watermarkToggle = FALSE
    /\ ops = [o \in OpIds |-> IdleOp]
    /\ \/ /\ bulkQueue = <<>>
          /\ jobs = <<>>
          /\ bulkList = {}
          /\ runs = [r \in RunIds |-> IdleRun]
          /\ bulkDownloadHidden = TRUE
          /\ storedHistory = <<>>
          /\ historyContainer = <<>>
       \/ /\ bulkQueue = <<EarlierItem.id>>
          /\ jobs = [id \in {EarlierItem.id} |-> EarlierItem]
          /\ bulkList = {EarlierItem.id}
          /\ runs = [r \in RunIds |-> IF r = 1 THEN FinishedRun ELSE IdleRun]
          /\ bulkDownloadHidden = FALSE
          /\ storedHistory = EarlierHistory
          /\ historyContainer = EarlierHistory

NextPrompts ==
    \/ GenerateClickBulkEmpty
    \/ GenerateClickBulk

SpecPrompts == InitPrompts /\ [][NextPrompts]_vars

\* ------------------------------------------------------------ lines of a text
\* The lines of a text by position, without splitting it: a line starts at
\* the first character and after every newline.
LineStarts(t) == {j \in 1..(Len(t) + 1) : j = 1 \/ t[j - 1] = NL}
\* The position after the last character of the line that starts at j.
LineEnd(t, j) ==
    CHOOSE e \in j..(Len(t) + 1) :
        /\ e = Len(t) + 1 \/ t[e] = NL
        /\ \A m \in j..(e - 1) : t[m] # NL
\* The positions of the characters of that line that are not whitespace.
Ink(t, j) == {m \in j..(LineEnd(t, j) - 1) : t[m] \notin Whitespace}
NonBlankStarts(t) == {j \in LineStarts(t) : Ink(t, j) # {}}
\* The start of the k-th non-blank line.
KthNonBlank(t, k) ==
    CHOOSE j \in NonBlankStarts(t) :
        Cardinality({m \in NonBlankStarts(t) : m < j}) = k - 1
Least(S) == CHOOSE x \in S : \A y \in S : x <= y
Greatest(S) == CHOOSE x \in S : \A y \in S : x >= y
\* The k-th non-blank line from its first to its last character that is
\* not whitespace.
TrimmedLine(t, k) ==
    LET j == KthNonBlank(t, k)
    IN SubSeq(t, Least(Ink(t, j)), Greatest(Ink(t, j)))

\* ------------------------------------------------------------ claims
\* C4: a click in bulk mode on a text with at least one non-blank line
\* makes bulkQueue hold exactly one new job per non-blank line, job k with
\* the trimmed text of the k-th non-blank line; every job is created
\* pending with no image, and the same task starts the first one, so the
\* first job is generating and all others are pending after the click.
C4_OneJobPerLine ==
    [][(currentMode = "bulk" /\ NonBlankStarts(promptEl) # {}) =>
        /\ Len(bulkQueue') = Cardinality(NonBlankStarts(promptEl))
        /\ \A k \in 1..Len(bulkQueue') :
            /\ bulkQueue'[k] \notin DOMAIN jobs
            /\ jobs'[bulkQueue'[k]].prompt = TrimmedLine(promptEl, k)
            /\ jobs'[bulkQueue'[k]].imageUrl = NoImage
            /\ jobs'[bulkQueue'[k]].status = IF k = 1 THEN "generating" ELSE "pending"]_vars

\* Two jobs from a text with a blank line and an untrimmed line.
C4_Witness ==
    /\ promptEl = <<"a", NL, NL, " ">> \/ promptEl = <<"b", NL, " ", "a">>
    /\ prompt = promptEl
    /\ Len(bulkQueue) = Cardinality(NonBlankStarts(promptEl))
    /\ jobs[bulkQueue[1]].status = "generating"

\* C5: a click in bulk mode on a text with no non-blank line changes
\* nothing but the module variable prompt: no job is created, bulkQueue
\* and its items stay as they are, the button stays enabled and no run
\* (hence no call of generateImage) is started.
C5_EmptyRejected ==
    [][(currentMode = "bulk" /\ NonBlankStarts(promptEl) = {}) =>
        /\ UNCHANGED <<bulkQueue, jobs, bulkList, runs, bulkDownloadHidden, storedHistory>>
        /\ ~generateDisabled'
        /\ \A r \in RunIds : runs'[r].pc # "generate"]_vars

\* The click on a blank text has run, on a page with an earlier queue.
C5_Witness ==
    /\ promptEl = <<" ", NL, " ">>
    /\ prompt = promptEl
    /\ bulkQueue = <<EarlierItem.id>>
    /\ ~generateDisabled

\* ------------------------------------------------------------ bulk run claims
Terminal(status) == status \in {"done", "error"}

\* No invocation of runBulkGeneration is between its start and its end.
Quiescent == \A r \in RunIds : runs[r].pc \in {"idle", "finished"}

\* The positions inside the try block of an iteration.
InTry(pc) == pc \in {"generate", "watermark", "save"}

Rank(status) ==
    IF status = "pending" THEN 0 ELSE IF status = "generating" THEN 1 ELSE 2

QueueStatuses == [k \in 1..Len(bulkQueue) |-> jobs[bulkQueue[k]].status]

HasErrorMessage(item) == "errorMessage" \in DOMAIN item

\* C1: a job whose generation throws is set to error and its run stays in
\* the loop: unless the job was the last of bulkQueue the run goes on to
\* the delay and then sets the next job of bulkQueue to generating; once no
\* run is active every job of bulkQueue is done or error.
C1_FailureIsolation ==
    [][/\ \A r \in RunIds :
            (runs[r].pc = "generate" /\ ~InTry(runs'[r].pc)) =>
                /\ jobs'[runs[r].item].status = "error"
                /\ runs[r].i < Len(bulkQueue) =>
                       runs'[r].pc = "delay" /\ runs'[r].i = runs[r].i
       /\ \A r \in RunIds :
            (runs[r].pc = "delay" /\ runs'[r] # runs[r] /\ runs[r].i < Len(bulkQueue)) =>
                /\ runs'[r].pc = "generate"
                /\ runs'[r].item = bulkQueue[runs[r].i + 1]
                /\ jobs'[bulkQueue[runs[r].i + 1]].status = "generating"
       /\ Quiescent' =>
            \A k \in 1..Len(bulkQueue') : Terminal(jobs'[bulkQueue'[k]].status)]_vars

\* A single run of two jobs has ended with the first job failed and the
\* second one done.
C1_Witness ==
    /\ runs[1].pc = "finished"
    /\ \A r \in RunIds : r # 1 => runs[r].pc = "idle"
    /\ QueueStatuses = <<"error", "done">>

\* C2: the status of a job only moves forward along
\* pending -> generating -> {done | error}, and a done or error job keeps
\* its status.
C2_ForwardOnly ==
    [][\A id \in DOMAIN jobs :
        /\ Rank(jobs'[id].status) >= Rank(jobs[id].status)
        /\ Terminal(jobs[id].status) => jobs'[id].status = jobs[id].status]_vars

\* C3: at most one generateImage call of the bulk runner is in flight, and
\* a job of bulkQueue has left pending only if the job before it is done or
\* error.
C3_Sequential ==
    /\ Cardinality({r \in RunIds : runs[r].pc = "generate"}) <= 1
    /\ \A k \in 1..(Len(bulkQueue) - 1) :
        jobs[bulkQueue[k + 1]].status # "pending" => Terminal(jobs[bulkQueue[k]].status)

\* C6: when an invocation of runBulkGeneration resolves, every job of
\* bulkQueue is done or error.
C6_ResolvedAllTerminal ==
    [][\A r \in RunIds :
        (runs[r].pc # "finished" /\ runs'[r].pc = "finished") =>
            \A k \in 1..Len(bulkQueue') : Terminal(jobs'[bulkQueue'[k]].status)]_vars

\* C7: a run sets a job to generating only at its start or when the delay
\* of BulkDelayMs it took after the job before has elapsed; at the end of
\* an iteration, after a done job and after an error job alike, the run
\* takes the delay of BulkDelayMs if the job was not the last of bulkQueue
\* and ends without a delay if it was.
C7_InterJobDelay ==
    [][\A r \in RunIds :
        /\ (runs'[r].pc = "generate" /\ runs'[r] # runs[r]) =>
              \/ runs[r].pc = "idle"
              \/ runs[r].pc = "delay" /\ runs[r].timer = BulkDelayMs
        /\ (InTry(runs[r].pc) /\ ~InTry(runs'[r].pc)) =>
              IF runs[r].i < Len(bulkQueue)
              THEN runs'[r].pc = "delay" /\ runs'[r].timer = BulkDelayMs
              ELSE runs'[r].pc = "finished"]_vars

\* The only run is in the delay after its first job failed.
C7_Witness ==
    /\ runs[1].pc = "delay"
    /\ runs[1].timer = BulkDelayMs
    /\ \A r \in RunIds : r # 1 => runs[r].pc = "idle"
    /\ QueueStatuses = <<"error", "pending">>

\* C8: a job has an imageUrl if and only if its status is done.
C8_ImageIffDone ==
    \A id \in DOMAIN jobs : (jobs[id].imageUrl # NoImage) <=> (jobs[id].status = "done")

C10_PersistenceIsolated ==
    [][\A r \in RunIds :
        (runs[r].pc = "save" /\ runs'[r].pc # "save") =>
            /\ jobs' = jobs
            /\ runs'[r].pc = IF runs[r].i < Len(bulkQueue) THEN "delay" ELSE "finished"]_vars

\* The first job of the only run is done and the run is in the delay,
\* although saveToHistory stored nothing.
C10_Witness ==
    /\ runs[1].pc = "delay"
    /\ \A r \in RunIds : r # 1 => runs[r].pc = "idle"
    /\ QueueStatuses = <<"done", "pending">>
    /\ storedHistory = <<>>
    /\ historyContainer = <<>>

\* ------------------------------------------------------------ independence of runs
\* The run that created an item: the first component of its id.
Creator(id) == id[1]

\* C11: the job a run is processing is a job the run created itself, so no
\* job is processed by a run other than its creator.
C11_IndependentRuns ==
    \A r \in RunIds : runs[r].item # NoItem => Creator(runs[r].item) = r

\* ------------------------------------------------------------ downloadBulkZip
\* Bound: number of clicks on the download button in one behaviour.
MaxExports == 1
\* Bound: longest bulkQueue in the specification SpecExport.
MaxExportJobs == 2

\* substring(0, 15)
PromptPartLen == 15

Lower == {"a", "b", "c", "d", "e", "f", "g", "h", "i", "j", "k", "l", "m",
          "n", "o", "p", "q", "r", "s", "t", "u", "v", "w", "x", "y", "z"}
Upper == {"A", "B", "C", "D", "E", "F", "G", "H", "I", "J", "K", "L", "M",
          "N", "O", "P", "Q", "R", "S", "T", "U", "V", "W", "X", "Y", "Z"}
Digits == <<"0", "1", "2", "3", "4", "5", "6", "7", "8", "9">>
\* /[a-z0-9]/i
AlphaNum == Lower \cup Upper \cup Range(Digits)

\* The characters of the MIME types the model API answers with.
MimeText(mime) ==
    IF mime = "image/png" THEN <<"i", "m", "a", "g", "e", "/", "p", "n", "g">>
    ELSE IF mime = "image/jpeg" THEN <<"i", "m", "a", "g", "e", "/", "j", "p", "e", "g">>
    ELSE IF mime = "image/webp" THEN <<"i", "m", "a", "g", "e", "/", "w", "e", "b", "p">>
    ELSE <<>>

\* The base64 payload of every image of the model.
ImageData == <<"d">>

\* `data:${mime};base64,${data}`, character by character.
DataUrl(img) ==
    <<"d", "a", "t", "a", ":">> \o MimeText(img.mime)
        \o <<";", "b", "a", "s", "e", "6", "4", ",">> \o ImageData

StartsWith(s, at, pre) ==
    at + Len(pre) - 1 <= Len(s) /\ SubSeq(s, at, at + Len(pre) - 1) = pre

\* The length of the longest run of [a-z] in s from position at.
RECURSIVE LetterRun(_, _)
LetterRun(s, at) ==
    IF at <= Len(s) /\ s[at] \in Lower THEN 1 + LetterRun(s, at + 1) ELSE 0

\* url.match(/^data:(image\/[a-z]+);base64,(.+)$/): whether it matches, the
\* letters after "image/" and the second group.
MatchDataUrl(url) ==
    LET head == <<"d", "a", "t", "a", ":", "i", "m", "a", "g", "e", "/">>
        mark == <<";", "b", "a", "s", "e", "6", "4", ",">>
        from == Len(head) + 1
        n == LetterRun(url, from)
        rest == SubSeq(url, from + n + Len(mark), Len(url))
    IN IF /\ StartsWith(url, 1, head)
          /\ n >= 1
          /\ StartsWith(url, from + n, mark)
          /\ rest # <<>>
          /\ \A k \in 1..Len(rest) : rest[k] # NL
       THEN [matched |-> TRUE, ext |-> SubSeq(url, from, from + n - 1), data |-> rest]
       ELSE [matched |-> FALSE, ext |-> <<>>, data |-> <<>>]

\* The decimal digits of a natural number.
RECURSIVE Decimal(_)
Decimal(n) ==
    IF n < 10 THEN <<Digits[n + 1]>> ELSE Decimal(n \div 10) \o <<Digits[(n % 10) + 1]>>

\* Mutant of Sanitize: the pattern without its i flag.
SanitizeLowerOnly(p) ==
    LET cut == SubSeq(p, 1, IF Len(p) < PromptPartLen THEN Len(p) ELSE PromptPartLen)
    IN [k \in 1..Len(cut) |-> IF cut[k] \in Lower \cup Range(Digits) THEN cut[k] ELSE "_"]

\* item.prompt.substring(0, 15).replace(/[^a-z0-9]/gi, '_')
Sanitize(p) ==
    LET cut == SubSeq(p, 1, IF Len(p) < PromptPartLen THEN Len(p) ELSE PromptPartLen)
    IN [k \in 1..Len(cut) |-> IF cut[k] \in AlphaNum THEN cut[k] ELSE "_"]

\* Mutant of Filename: the name without the position of the item.
FilenameWithoutPosition(position, p, ext) ==
    <<"i", "m", "a", "g", "e", "_">> \o Sanitize(p) \o <<".">> \o ext

\* `image_${index + 1}_${...}.${ext}` for the item at position index + 1.
Filename(position, p, ext) ==
    <<"i", "m", "a", "g", "e", "_">> \o Decimal(position) \o <<"_">>
        \o Sanitize(p) \o <<".">> \o ext

\* Mutant of Exportable: every item holding an image is exported.
ExportableAnyImage(item) == item.imageUrl # NoImage

\* item.status === 'done' && item.imageUrl
Exportable(item) == item.status = "done" /\ item.imageUrl # NoImage

\* folder.file(name, data): an entry of the same name is replaced.
AddFile(files, name, data) ==
    IF \E k \in 1..Len(files) : files[k].name = name
    THEN [k \in 1..Len(files) |->
            IF files[k].name = name THEN [name |-> name, data |-> data] ELSE files[k]]
    ELSE Append(files, [name |-> name, data |-> data])

\* The forEach loop over the first n items of the queue: the entries of the
\* folder and the value of count.
RECURSIVE ZipLoop(_, _, _)
ZipLoop(queue, js, n) ==
    IF n = 0 THEN [files |-> <<>>, count |-> 0]
    ELSE LET before == ZipLoop(queue, js, n - 1)
             item == js[queue[n]]
             match == MatchDataUrl(DataUrl(item.imageUrl))
         IN IF Exportable(item) /\ match.matched
            THEN [files |-> AddFile(before.files, Filename(n, item.prompt, match.ext),
                                    match.data),
                  count |-> before.count + 1]
            ELSE before

Clicks == Len(zip.archives) + zip.refused

\* downloadBulkZip up to `await zip.generateAsync`, or to its end when
\* nothing is generated.
DownloadBulkZip ==
    /\ Clicks < MaxExports
    /\ IF ~zip.loaded
       THEN zip' = [zip EXCEPT !.alert = "JSZip library not loaded.", !.refused = @ + 1]
       ELSE LET built == ZipLoop(bulkQueue, jobs, Len(bulkQueue))
            IN IF built.count > 0
               THEN zip' = [zip EXCEPT !.archives =
                                Append(@, [files |-> built.files, downloaded |-> FALSE])]
               ELSE zip' = [zip EXCEPT !.alert = "No successful images to download.",
                                       !.refused = @ + 1]
    /\ UNCHANGED <<promptEl, prompt, currentMode, generateDisabled, outputImage,
                   imageActionsHidden, editSectionHidden, bulkDownloadHidden,
                   watermarkToggle, bulkQueue, jobs, bulkList, runs, ops, storedHistory,
                   historyContainer, stage, canvas, uploads, click, timers>>

\* zip.generateAsync settles for the k-th archive: the download is triggered.
ZipGenerated(k) ==
    /\ k \in 1..Len(zip.archives)
    /\ ~zip.archives[k].downloaded
    /\ zip' = [zip EXCEPT !.archives[k].downloaded = TRUE]
    /\ UNCHANGED <<promptEl, prompt, currentMode, generateDisabled, outputImage,
                   imageActionsHidden, editSectionHidden, bulkDownloadHidden,
                   watermarkToggle, bulkQueue, jobs, bulkList, runs, ops, storedHistory,
                   historyContainer, stage, canvas, uploads, click, timers>>

\* ------------------------------------------------------------ SpecExport
\* downloadBulkZip on every queue of at most MaxExportJobs finished jobs.
ExportPrompts ==
    {<<"a">>,
     <<"A", " ", "c", "a", "t", "-", "9", "_", "!">>,
     <<"0", "1", "2", "3", "4", "5", "6", "7", "8", "9", "a", "b", "c", "d", " ", "!", "e">>}

\* How a job of a finished run has ended: done with its image, failed, or
\* failed in one run after another run had stored an image in it.
ExportOutcomes ==
    {[status |-> "done", imageUrl |-> Image("image/png")],
     [status |-> "done", imageUrl |-> Image("image/jpeg")],
     [status |-> "done", imageUrl |-> Image("image/webp")],
     [status |-> "error", imageUrl |-> NoImage],
     [status |-> "error", imageUrl |-> Image("image/png")]}

ExportItems(n) ==
    [1..n -> {[prompt |-> p, status |-> o.status, imageUrl |-> o.imageUrl] :
                 p \in ExportPrompts, o \in ExportOutcomes}]

InitExport ==
    /\ \E loaded \in BOOLEAN : zip = [IdleZip EXCEPT !.loaded = loaded]
    /\ stage = IdleStage
    /\ canvas = IdleCanvas
    /\ uploads = IdleUploads
    /\ click = IdleClick
    /\ timers = IdleTimers
    /\ promptEl = <<>>
    /\ prompt = <<>>
    /\ currentMode = "bulk"
    /\ generateDisabled = FALSE
    /\ outputImage = [src |-> NoImage, hidden |-> TRUE]
    /\ imageActionsHidden = TRUE
    /\ editSectionHidden = TRUE
    /\ watermarkToggle = FALSE
    /\ ops = [o \in OpIds |-> IdleOp]
    /\ storedHistory = <<>>
    /\ historyContainer = <<>>
    /\ \E n \in 0..MaxExportJobs : \E items \in ExportItems(n) :
        /\ bulkQueue = [k \in 1..n |-> <<1, k>>]
        /\ jobs = [id \in {<<1, k>> : k \in 1..n} |->
                     [id |-> id, prompt |-> items[id[2]].prompt,
                      status |-> items[id[2]].status, imageUrl |-> items[id[2]].imageUrl]]
        /\ bulkList = {<<1, k>> : k \in 1..n}
        /\ runs = [r \in RunIds |-> IF r = 1 /\ n > 0 THEN FinishedRun ELSE IdleRun]
        /\ bulkDownloadHidden = ~\E k \in 1..n : items[k].status = "done"

NextExport ==
    \/ DownloadBulkZip
    \/ \E k \in 1..MaxExports : ZipGenerated(k)

SpecExport == InitExport /\ [][NextExport]_vars

\* ------------------------------------------------------------ export claims
\* The positions of the done jobs in bulkQueue.
DonePositions == {k \in 1..Len(bulkQueue) : jobs[bulkQueue[k]].status = "done"}

\* The position of the j-th done job.
KthDone(j) ==
    CHOOSE pos \in DonePositions : Cardinality({q \in DonePositions : q <= pos}) = j

\* The step is a run of downloadBulkZip.
ExportStep == Len(zip'.archives) # Len(zip.archives) \/ zip'.refused # zip.refused

FilenameChars == AlphaNum \cup {"_"}

\* The files of every archive built so far.
AllFiles == {zip.archives[a].files : a \in 1..Len(zip.archives)}

\* C12: with JSZip loaded, an export of a queue with at least one done job
\* builds one archive that has exactly one entry per done job, and the
\* names of its entries are pairwise distinct.
C12_ExportOnePerDone ==
    [][(zip.loaded /\ DonePositions # {} /\ ExportStep) =>
        /\ Len(zip'.archives) = Len(zip.archives) + 1
        /\ zip'.refused = zip.refused
        /\ LET files == zip'.archives[Len(zip'.archives)].files
           IN /\ Len(files) = Cardinality(DonePositions)
              /\ \A a, b \in 1..Len(files) : a # b => files[a].name # files[b].name]_vars

\* Two done jobs with the same prompt and the same image type have been
\* exported and the download has been triggered.
C12_Witness ==
    /\ Len(bulkQueue) = 2
    /\ DonePositions = {1, 2}
    /\ jobs[bulkQueue[1]].prompt = jobs[bulkQueue[2]].prompt
    /\ jobs[bulkQueue[1]].imageUrl = jobs[bulkQueue[2]].imageUrl
    /\ Len(zip.archives) = 1
    /\ Len(zip.archives[1].files) = 2
    /\ zip.archives[1].downloaded

\* C13: an export of a queue without a done job builds no archive and
\* triggers no download, leaves bulkQueue and its jobs as they are, and
\* ends in an alert, which with JSZip loaded is the one saying that there
\* are no successful images.
C13_ExportNothingDone ==
    [][(DonePositions = {} /\ ExportStep) =>
        /\ zip'.archives = zip.archives
        /\ zip'.alert # ""
        /\ zip.loaded => zip'.alert = "No successful images to download."
        /\ UNCHANGED <<bulkQueue, jobs, bulkList>>]_vars

\* An export of two failed jobs, one of them still holding an image, has
\* been refused.
C13_Witness ==
    /\ zip.loaded
    /\ zip.refused = 1
    /\ zip.archives = <<>>
    /\ zip.alert = "No successful images to download."
    /\ Len(bulkQueue) = 2
    /\ DonePositions = {}
    /\ \E k \in 1..2 : jobs[bulkQueue[k]].imageUrl # NoImage

\* The prompt part of the name of the j-th file of an archive is the first
\* PromptPartLen characters of the prompt of the j-th done job with every
\* character outside [A-Za-z0-9] replaced by "_".
PromptPartSanitized(files, j) ==
    LET pos == KthDone(j)
        p == jobs[bulkQueue[pos]].prompt
        n == IF Len(p) < PromptPartLen THEN Len(p) ELSE PromptPartLen
        start == Len(<<"i", "m", "a", "g", "e", "_">>) + Len(Decimal(pos)) + 1
        name == files[j].name
    IN /\ Len(name) > start + n
       /\ \A k \in 1..n : name[start + k] = IF p[k] \in AlphaNum THEN p[k] ELSE "_"
       /\ name[start + n + 1] = "."

\* The position of the "." before the extension in the j-th file name.
DotPosition(j) ==
    LET pos == KthDone(j)
        p == jobs[bulkQueue[pos]].prompt
    IN Len(<<"i", "m", "a", "g", "e", "_">>) + Len(Decimal(pos)) + 1
         + (IF Len(p) < PromptPartLen THEN Len(p) ELSE PromptPartLen) + 1

\* C14 as stated: the prompt part of every file name is the sanitized
\* first 15 characters of the prompt, and the file name contains only
\* characters of [A-Za-z0-9_].
C14_FilenameCharset ==
    \A files \in AllFiles : \A j \in 1..Len(files) :
        /\ PromptPartSanitized(files, j)
        /\ \A k \in 1..Len(files[j].name) : files[j].name[k] \in FilenameChars

\* C14 as amended: the prompt part of every file name is the sanitized
\* first 15 characters of the prompt, and the file name contains only
\* characters of [A-Za-z0-9_] apart from the one "." before its extension.
C14_SanitizedPromptPart ==
    \A files \in AllFiles : \A j \in 1..Len(files) :
        /\ PromptPartSanitized(files, j)
        /\ \A k \in 1..Len(files[j].name) :
            k # DotPosition(j) => files[j].name[k] \in FilenameChars

\* A done job whose prompt is longer than PromptPartLen characters and has
\* characters outside [A-Za-z0-9] on both sides of the cut has been exported.
C14_Witness ==
    /\ Len(zip.archives) = 1
    /\ DonePositions = {1, 2}
    /\ Len(jobs[bulkQueue[2]].prompt) > PromptPartLen
    /\ jobs[bulkQueue[2]].prompt[PromptPartLen] \notin AlphaNum
    /\ jobs[bulkQueue[2]].prompt[PromptPartLen + 1] \notin AlphaNum
    /\ \E k \in 1..Len(jobs[bulkQueue[1]].prompt) : jobs[bulkQueue[1]].prompt[k] \in Upper
    /\ Len(zip.archives[1].files) = 2

\* ------------------------------------------------------------ SpecWatermark
\* A bulk run of two jobs in which the response of the model API and the
\* behaviour of the browser during applyWatermark are fixed beforehand.
JpegResponse == [rejected |-> FALSE,
                 candidates |-> <<Candidate(TRUE, <<Part("d", "image/jpeg", "")>>, "STOP")>>]

StageResponses == {ImageResponse, JpegResponse, RejectedResponse}

AllWatermarkEnvs ==
    {WatermarkEnv(type, logo, imgDecodes, ctx) :
        type \in {"text", "image"}, logo \in {"none", "ok", "bad"},
        imgDecodes \in BOOLEAN, ctx \in BOOLEAN}

StageItems == [id \in {<<1, 1>>, <<1, 2>>} |-> BulkItem(id, <<"a">>)]

\* A run at the generation call of the first of two jobs, with the response
\* of the model and the behaviour of the browser fixed in advance.
InitStage(responses, envs) ==
    /\ zip = IdleZip
    /\ canvas = IdleCanvas
    /\ uploads = IdleUploads
    /\ click = IdleClick
    /\ timers = IdleTimers
    /\ \E response \in responses, env \in envs :
        stage = [fixed |-> TRUE, response |-> response, env |-> env]
    /\ watermarkToggle \in BOOLEAN
    /\ promptEl = <<"a", NL, "a">>
    /\ prompt = promptEl
    /\ currentMode = "bulk"
    /\ generateDisabled = TRUE
    /\ outputImage = [src |-> NoImage, hidden |-> TRUE]
    /\ imageActionsHidden = TRUE
    /\ editSectionHidden = TRUE
    /\ bulkDownloadHidden = TRUE
    /\ bulkQueue = <<<<1, 1>>, <<1, 2>>>>
    /\ jobs = [StageItems EXCEPT ![<<1, 1>>].status = "generating"]
    /\ bulkList = {<<1, 1>>, <<1, 2>>}
    /\ runs = [r \in RunIds |->
                 IF r = 1 THEN [pc |-> "generate", i |-> 1, item |-> <<1, 1>>,
                                base64 |-> NoImage, timer |-> 0]
                 ELSE IdleRun]
    /\ ops = [o \in OpIds |-> IdleOp]
    /\ storedHistory = <<>>
    /\ historyContainer = <<>>

InitWatermark == InitStage(StageResponses, AllWatermarkEnvs)

NextWatermark ==
    \/ \E r \in RunIds : BulkGenerateSettles(r, stage.response)
    \/ \E r \in RunIds : BulkWatermarkSettles(r, stage.env)
    \/ \E r \in RunIds : BulkSaveSettles(r, SaveOk)
    \/ \E r \in RunIds : BulkDelayElapses(r)

SpecWatermark == InitWatermark /\ [][NextWatermark]_vars

\* ------------------------------------------------------------ watermark claims
\* Run r leaves the watermark stage in this step.
WatermarkSettled(r) == runs[r].pc = "watermark" /\ runs'[r] # runs[r]

\* The job of run r ends the step done, holding exactly the image the run
\* gave to applyWatermark.
DoneWithInput(r) ==
    /\ runs'[r].pc = "save"
    /\ runs'[r].base64 = runs[r].base64
    /\ jobs'[runs[r].item].status = "done"
    /\ jobs'[runs[r].item].imageUrl = runs[r].base64

\* C15 as stated: when the generated image cannot be decoded in the
\* watermark stage, the job is marked failed.
C15_DecodeFailureFailsJob ==
    [][\A r \in RunIds :
        (WatermarkSettled(r) /\ ~stage.env.imgDecodes) =>
            jobs'[runs[r].item].status = "error"]_vars

\* C15 as amended: when the generated image cannot be decoded in the
\* watermark stage, applyWatermark resolves with its input unchanged and
\* the job ends done with that image.
C15_DecodeFailureFailsOpen ==
    [][\A r \in RunIds :
        (WatermarkSettled(r) /\ ~stage.env.imgDecodes) => DoneWithInput(r)]_vars

\* A job is done with the JPEG image of the model although watermarking
\* was enabled with a text and the image did not decode.
C15_Witness ==
    /\ watermarkToggle
    /\ ~stage.env.imgDecodes /\ stage.env.type = "text" /\ stage.env.ctx
    /\ jobs[<<1, 1>>].status = "done"
    /\ jobs[<<1, 1>>].imageUrl = Image("image/jpeg")

\* C16: with the watermark toggle unchecked, a generated image goes on as
\* it is in the task in which generateImage settles: nothing is decoded,
\* and the job is done with exactly the image generateImage returned,
\* whatever the other watermark settings are.
C16_DisabledIsIdentity ==
    [][\A r \in RunIds :
        (/\ runs[r].pc = "generate"
         /\ runs'[r] # runs[r]
         /\ ~watermarkToggle
         /\ generateImage(stage.response).ok) =>
            /\ runs'[r].pc = "save"
            /\ runs'[r].base64 = generateImage(stage.response).value
            /\ jobs'[runs[r].item].status = "done"
            /\ jobs'[runs[r].item].imageUrl = generateImage(stage.response).value]_vars

\* With the toggle unchecked and settings that would put a text on the
\* image, the job is done with the JPEG image of the model.
C16_Witness ==
    /\ ~watermarkToggle
    /\ stage.env = WatermarkEnv("text", "none", TRUE, TRUE)
    /\ runs[1].pc = "save"
    /\ runs[1].i = 1
    /\ jobs[<<1, 1>>].imageUrl = Image("image/jpeg")

\* C17: when the watermark is a logo and the logo does not decode,
\* applyWatermark resolves with its input unchanged and the job ends done
\* with that image.
C17_LogoFailOpen ==
    [][\A r \in RunIds :
        (/\ WatermarkSettled(r)
         /\ stage.env.type = "image"
         /\ stage.env.logo = "bad") => DoneWithInput(r)]_vars

\* A job is done with the JPEG image of the model after the image decoded,
\* the canvas was there and the logo did not decode.
C17_Witness ==
    /\ watermarkToggle
    /\ stage.env = WatermarkEnv("image", "bad", TRUE, TRUE)
    /\ jobs[<<1, 1>>].status = "done"
    /\ jobs[<<1, 1>>].imageUrl = Image("image/jpeg")
    /\ runs[1].pc = "delay"

\* ------------------------------------------------------------ canvas computations
\* Bound: largest width, height, maxWidth, text width and logo size drawn,
\* besides the 1000 x 1000 image with a text 100 wide and the 16 x 9 image
\* with a logo of 4 x 1 and of 1 x 4.
MaxDim == 6
\* Bound: number of times compressImage is applied to its own output.
MaxPasses == 2

\* Math.round(a / b) for a >= 0 and b > 0: halves are rounded up.
Round(a, b) == (2 * a + b) \div (2 * b)

\* The width and height compressImage gives its canvas for an image of
\* width w and height h.
CompressedSize(w, h, maxWidth) ==
    IF w > maxWidth
    THEN [width |-> maxWidth, height |-> Round(h * maxWidth, w)]
    ELSE [width |-> w, height |-> h]

\* A canvas without pixels encodes to "data:,", which does not load as an
\* image.
Decodable(size) == size.width > 0 /\ size.height > 0

\* compressImage applied to the image the record holds: the first time to
\* the input, then to its own output; an image that does not load rejects.
CompressPass ==
    /\ canvas.op = "compress"
    /\ canvas.pass < MaxPasses
    /\ ~canvas.failed
    /\ IF Decodable(canvas.size)
       THEN LET out == CompressedSize(canvas.size.width, canvas.size.height, canvas.maxWidth)
            IN canvas' = [canvas EXCEPT !.pass = @ + 1, !.size = out,
                                        !.first = IF canvas.pass = 0 THEN out ELSE @]
       ELSE canvas' = [canvas EXCEPT !.pass = @ + 1, !.failed = TRUE]
    /\ UNCHANGED <<promptEl, prompt, currentMode, generateDisabled, outputImage,
                   imageActionsHidden, editSectionHidden, bulkDownloadHidden,
                   watermarkToggle, bulkQueue, jobs, bulkList, runs, ops, storedHistory,
                   historyContainer, zip, stage, uploads, click, timers>>

\* Coordinates are kept in units of 1/200 pixel, in which 3% and 5% of a
\* width and the halves of the centre position are whole numbers.
PixelUnits == 200

Positions == {"bottom-right", "bottom-left", "top-right", "top-left", "center"}

\* Mutant of TextOrigin: the top positions leave out the height of the text.
TextOriginWithoutTextHeight(position, W, H, textWidth) ==
    LET padding == 6 * W
        width == PixelUnits * W
        height == PixelUnits * H
        tw == PixelUnits * textWidth
    IN IF position = "bottom-right" THEN [x |-> width - tw - padding, y |-> height - padding]
       ELSE IF position = "bottom-left" THEN [x |-> padding, y |-> height - padding]
       ELSE IF position = "top-right" THEN [x |-> width - tw - padding, y |-> padding]
       ELSE IF position = "top-left" THEN [x |-> padding, y |-> padding]
       ELSE IF position = "center" THEN [x |-> (width - tw) \div 2, y |-> height \div 2]
       ELSE [x |-> 0, y |-> 0]

\* The origin of fillText for a text watermark, in 1/200 pixel.
TextOrigin(position, W, H, textWidth) ==
    LET padding == 6 * W
        fontSize == 10 * W
        textHeight == fontSize
        width == PixelUnits * W
        height == PixelUnits * H
        tw == PixelUnits * textWidth
    IN IF position = "bottom-right" THEN [x |-> width - tw - padding, y |-> height - padding]
       ELSE IF position = "bottom-left" THEN [x |-> padding, y |-> height - padding]
       ELSE IF position = "top-right" THEN [x |-> width - tw - padding, y |-> padding + textHeight]
       ELSE IF position = "top-left" THEN [x |-> padding, y |-> padding + textHeight]
       ELSE IF position = "center" THEN [x |-> (width - tw) \div 2, y |-> (height + textHeight) \div 2]
       ELSE [x |-> 0, y |-> 0]

\* The text branch of applyWatermark computes the origin of the text.
PlaceText ==
    /\ canvas.op = "text"
    /\ ~canvas.placed
    /\ canvas' = [canvas EXCEPT !.placed = TRUE,
                                !.origin = TextOrigin(canvas.position, canvas.W, canvas.H,
                                                      canvas.textWidth)]
    /\ UNCHANGED <<promptEl, prompt, currentMode, generateDisabled, outputImage,
                   imageActionsHidden, editSectionHidden, bulkDownloadHidden,
                   watermarkToggle, bulkQueue, jobs, bulkList, runs, ops, storedHistory,
                   historyContainer, zip, stage, uploads, click, timers>>

\* The rectangle drawImage gives the logo of a logo watermark on an image W
\* wide and H high, for a logo logoW wide and logoH high. logoHeight is
\* logoH * 0.15 * W / logoW, so the coordinates are kept in units of
\* 1 / (200 * logoW) pixel, in which all of them are whole numbers.
LogoRect(position, W, H, logoW, logoH) ==
    LET units == PixelUnits * logoW
        padding == 6 * W * logoW
        logoWidth == 30 * W * logoW
        logoHeight == 30 * W * logoH
        width == units * W
        height == units * H
        at(x, y) == [x |-> x, y |-> y, width |-> logoWidth, height |-> logoHeight,
                     units |-> units]
    IN IF position = "bottom-right"
       THEN at(width - logoWidth - padding, height - logoHeight - padding)
       ELSE IF position = "bottom-left" THEN at(padding, height - logoHeight - padding)
       ELSE IF position = "top-right" THEN at(width - logoWidth - padding, padding)
       ELSE IF position = "top-left" THEN at(padding, padding)
       ELSE IF position = "center"
       THEN at((width - logoWidth) \div 2, (height - logoHeight) \div 2)
       ELSE at(0, 0)

\* The logo branch of applyWatermark computes the rectangle of the logo.
PlaceLogo ==
    /\ canvas.op = "logo"
    /\ ~canvas.placed
    /\ canvas' = [canvas EXCEPT !.placed = TRUE,
                                !.rect = LogoRect(canvas.position, canvas.W, canvas.H,
                                                  canvas.logoW, canvas.logoH)]
    /\ UNCHANGED <<promptEl, prompt, currentMode, generateDisabled, outputImage,
                   imageActionsHidden, editSectionHidden, bulkDownloadHidden,
                   watermarkToggle, bulkQueue, jobs, bulkList, runs, ops, storedHistory,
                   historyContainer, zip, stage, uploads, click, timers>>

\* ------------------------------------------------------------ SpecCanvas
CompressInputs ==
    {[op |-> "compress", w |-> w, h |-> h, maxWidth |-> m, pass |-> 0, failed |-> FALSE,
      size |-> [width |-> w, height |-> h], first |-> [width |-> w, height |-> h]] :
        w \in 1..MaxDim, h \in 1..MaxDim, m \in 1..MaxDim}

TextInputs ==
    {[op |-> "text", position |-> p, W |-> s[1], H |-> s[2], textWidth |-> s[3],
      placed |-> FALSE, origin |-> [x |-> 0, y |-> 0]] :
        p \in Positions,
        s \in ((1..MaxDim) \X (1..MaxDim) \X (0..MaxDim)) \cup {<<1000, 1000, 100>>}}

LogoInputs ==
    {[op |-> "logo", position |-> p, W |-> s[1], H |-> s[2], logoW |-> s[3], logoH |-> s[4],
      placed |-> FALSE, rect |-> [x |-> 0, y |-> 0, width |-> 0, height |-> 0, units |-> 1]] :
        p \in Positions,
        s \in ((1..MaxDim) \X (1..MaxDim) \X (1..MaxDim) \X (1..MaxDim))
                  \cup {<<16, 9, 4, 1>>, <<16, 9, 1, 4>>}}

InitCanvas ==
    /\ canvas \in CompressInputs \cup TextInputs \cup LogoInputs
    /\ zip = IdleZip
    /\ stage = IdleStage
    /\ uploads = IdleUploads
    /\ click = IdleClick
    /\ timers = IdleTimers
    /\ promptEl = <<>>
    /\ prompt = <<>>
    /\ currentMode = "standard"
    /\ generateDisabled = FALSE
    /\ outputImage = [src |-> NoImage, hidden |-> TRUE]
    /\ imageActionsHidden = TRUE
    /\ editSectionHidden = FALSE
    /\ bulkDownloadHidden = TRUE
    /\ watermarkToggle = TRUE
    /\ bulkQueue = <<>>
    /\ jobs = <<>>
    /\ bulkList = {}
    /\ runs = [r \in RunIds |-> IdleRun]
    /\ ops = [o \in OpIds |-> IdleOp]
    /\ storedHistory = <<>>
    /\ historyContainer = <<>>

NextCanvas ==
    \/ CompressPass
    \/ PlaceText
    \/ PlaceLogo

SpecCanvas == InitCanvas /\ [][NextCanvas]_vars

\* ------------------------------------------------------------ canvas claims
\* r is x rounded to the nearest integer for x = a / b, written with
\* integers: r - 1/2 <= a / b < r + 1/2.
IsRounded(r, a, b) == (2 * r - 1) * b <= 2 * a /\ 2 * a < (2 * r + 1) * b

\* C18: after compressImage an image wider than maxWidth is maxWidth wide
\* and round(h * maxWidth / w) high, any other image keeps its width and
\* height; the output is never wider than maxWidth and its height is at
\* least 1 whenever h >= 1.
C18_ResizeRule ==
    (canvas.op = "compress" /\ canvas.pass >= 1) =>
        /\ IF canvas.w > canvas.maxWidth
           THEN /\ canvas.first.width = canvas.maxWidth
                /\ IsRounded(canvas.first.height, canvas.h * canvas.maxWidth, canvas.w)
           ELSE canvas.first.width = canvas.w /\ canvas.first.height = canvas.h
        /\ canvas.first.width <= canvas.maxWidth
        /\ canvas.h >= 1 => canvas.first.height >= 1

\* C19: compressImage applied a second time with the same maxWidth gives
\* an image of the width and height the first application gave.
C19_IdempotentSize ==
    (canvas.op = "compress" /\ canvas.pass >= 2) =>
        ~canvas.failed /\ canvas.size = canvas.first

\* The draw origin of the text as the claim gives it, in 1/200 pixel, with
\* padding 3% and font size 5% of the width.
ClaimedOrigin(position, W, H, textWidth) ==
    LET padding == (3 * W * PixelUnits) \div 100
        fontSize == (5 * W * PixelUnits) \div 100
    IN CASE position = "bottom-right" ->
              <<(W - textWidth) * PixelUnits - padding, H * PixelUnits - padding>>
         [] position = "bottom-left" -> <<padding, H * PixelUnits - padding>>
         [] position = "top-right" ->
              <<(W - textWidth) * PixelUnits - padding, padding + fontSize>>
         [] position = "top-left" -> <<padding, padding + fontSize>>
         [] position = "center" ->
              <<((W - textWidth) * PixelUnits) \div 2, (H * PixelUnits + fontSize) \div 2>>

\* C20: the origin of the text is the one the claim gives for each of the
\* five positions; on a 1000 x 1000 image with a text 100 wide the
\* bottom-right origin is (870, 970).
C20_TextPlacement ==
    (canvas.op = "text" /\ canvas.placed) =>
        /\ <<canvas.origin.x, canvas.origin.y>> =
              ClaimedOrigin(canvas.position, canvas.W, canvas.H, canvas.textWidth)
        /\ (/\ canvas.W = 1000 /\ canvas.H = 1000 /\ canvas.textWidth = 100
            /\ canvas.position = "bottom-right") =>
              /\ canvas.origin.x = 870 * PixelUnits
              /\ canvas.origin.y = 970 * PixelUnits

\* The text has been placed bottom-right on the 1000 x 1000 image.
C20_Witness ==
    /\ canvas.op = "text"
    /\ canvas.placed
    /\ canvas.W = 1000 /\ canvas.H = 1000 /\ canvas.textWidth = 100
    /\ canvas.position = "bottom-right"
    /\ canvas.origin = [x |-> 870 * PixelUnits, y |-> 970 * PixelUnits]

\* ------------------------------------------------------------ logo placement
Corners == {"bottom-right", "bottom-left", "top-right", "top-left"}

\* C21: the logo is drawn 15% of the image width wide with the aspect ratio
\* of the logo file, and at each of the four corner positions its rectangle
\* lies inside [padding, W - padding] x [padding, H - padding] with padding
\* 3% of W, for every image size and every logo aspect ratio.
C21_LogoInsidePadding ==
    (canvas.op = "logo" /\ canvas.placed /\ canvas.position \in Corners) =>
        LET r == canvas.rect
            padding == 3 * canvas.W * r.units
            right == 100 * canvas.W * r.units - padding
            bottom == 100 * canvas.H * r.units - padding
        IN /\ 100 * r.width = 15 * canvas.W * r.units
           /\ r.width * canvas.logoH = r.height * canvas.logoW
           /\ padding <= 100 * r.x /\ 100 * (r.x + r.width) <= right
           /\ padding <= 100 * r.y /\ 100 * (r.y + r.height) <= bottom

\* ------------------------------------------------------------ generate outside bulk mode
\* Bound: number of hand images uploaded in nail mode.
MaxNails == 2

\* The modes the mode radios offer for each media type, bulk aside.
ImageModes == {"standard", "clothing", "product", "nail"}
VideoModes == {"video-standard", "video-shop"}

TryOnLabel ==
    <<"V", "i", "r", "t", "u", "a", "l", " ", "T", "r", "y", "-", "O", "n">>
ProductLabel ==
    <<"P", "r", "o", "d", "u", "c", "t", " ", "S", "h", "o", "t">>
NailLabel ==
    <<"N", "a", "i", "l", " ", "A", "r", "t">>
\* `Nail Art Bulk ${i+1}/${nailImageBase64s.length}`
NailBulkLabel(k, n) ==
    NailLabel \o <<" ", "B", "u", "l", "k", " ">> \o Decimal(k) \o <<"/">> \o Decimal(n)

\* historyPrompt of the click handler.
HistoryPrompt(mode, p) ==
    IF mode = "nail" THEN NailLabel
    ELSE IF mode = "product" THEN ProductLabel
    ELSE IF mode = "clothing" THEN TryOnLabel
    ELSE IF p # <<>> THEN p
    ELSE DefaultLabel

NothingUploaded(u) == ~u.reference /\ ~u.garment /\ ~u.product /\ u.nails = 0

\* Mutant of Validate: the garment of clothing mode is not asked for.
ValidateWithoutGarment(mode, p, u) ==
    IF p = <<>> /\ NothingUploaded(u) THEN "Please enter a prompt or upload an image."
    ELSE IF mode \in {"product", "video-shop"} /\ ~u.product
    THEN "Please upload a product image for Product Shop Mode."
    ELSE IF mode = "nail" /\ u.nails = 0
    THEN "Please upload a hand reference image for Nail Art Mode."
    ELSE ""

\* The validation of the click handler outside bulk mode: the error it
\* shows, or "" when the click goes on.
Validate(mode, p, u) ==
    IF p = <<>> /\ NothingUploaded(u) THEN "Please enter a prompt or upload an image."
    ELSE IF mode = "clothing" /\ ~u.garment
    THEN "Please upload a garment image for Clothing Shop Mode."
    ELSE IF mode \in {"product", "video-shop"} /\ ~u.product
    THEN "Please upload a product image for Product Shop Mode."
    ELSE IF mode = "nail" /\ u.nails = 0
    THEN "Please upload a hand reference image for Nail Art Mode."
    ELSE ""

\* A call of an upstream generation function with the uploads it is given.
Call(fn, images) == [fn |-> fn, images |-> images]

\* The generation strategy of the click handler: the call it makes first.
Strategy(mode, u) ==
    IF u.mediaType = "video"
    THEN IF mode = "video-shop" THEN Call("generateVideo", <<"product">>)
         ELSE Call("generateVideo", <<>>)
    ELSE IF mode = "clothing" /\ u.garment /\ u.reference
    THEN Call("generateMultimodalImage", <<"reference", "garment">>)
    ELSE IF mode = "product" /\ u.product
    THEN IF u.reference THEN Call("generateMultimodalImage", <<"product", "reference">>)
         ELSE Call("generateMultimodalImage", <<"product">>)
    ELSE IF mode = "nail" /\ u.nails > 0 THEN Call("generateMultimodalImage", <<"nail">>)
    ELSE IF u.reference THEN Call("generateMultimodalImage", <<"reference">>)
    ELSE Call("generateImage", <<>>)

\* The click takes the nail branch, which loops over the hand images.
NailBranch == uploads.mediaType = "image" /\ currentMode = "nail" /\ uploads.nails > 0

\* The click handler of the generate button outside bulk mode, up to its
\* first await: validation, then the loading animation and the first call.
GenerateClick ==
    /\ ~generateDisabled
    /\ currentMode # "bulk"
    /\ click.pc = "idle"
    /\ prompt' = promptEl
    /\ IF Validate(currentMode, promptEl, uploads) # ""
       THEN /\ click' = [click EXCEPT !.pc = "rejected"]
            /\ UNCHANGED <<generateDisabled, outputImage, imageActionsHidden,
                           editSectionHidden>>
       ELSE /\ StartLoadingAnimation
            /\ click' = [click EXCEPT
                   !.pc = IF uploads.mediaType = "video" THEN "video" ELSE "api",
                   !.i = IF NailBranch THEN 1 ELSE 0,
                   !.calls = <<Strategy(currentMode, uploads)>>]
    /\ UNCHANGED <<promptEl, currentMode, bulkDownloadHidden, watermarkToggle, bulkQueue,
                   jobs, bulkList, runs, ops, storedHistory, historyContainer, zip, stage,
                   canvas, uploads, timers>>

\* The catch and finally blocks of the click handler.
ClickFailed ==
    /\ click' = [click EXCEPT !.pc = "failed"]
    /\ StopLoadingAnimation
    /\ UNCHANGED <<outputImage, imageActionsHidden>>

\* The image is shown with its action buttons and saveToHistory is called.
ShowAndSave(c) ==
    /\ outputImage' = [src |-> c.image, hidden |-> FALSE]
    /\ imageActionsHidden' = FALSE
    /\ click' = [c EXCEPT !.pc = "save",
                          !.shown = Append(@, [image |-> c.image, applied |-> c.applied]),
                          !.saved = Append(@, [label |-> HistoryPrompt(currentMode, prompt),
                                               image |-> c.image, applied |-> c.applied])]
    /\ UNCHANGED generateDisabled

\* `base64Image = await applyWatermark(base64Image)` after the strategy.
FinalWatermark(c) ==
    IF watermarkToggle
    THEN /\ click' = [c EXCEPT !.pc = "watermark"]
         /\ UNCHANGED <<generateDisabled, outputImage, imageActionsHidden>>
    ELSE ShowAndSave(c)

\* The nail loop after `result = await applyWatermark(result)`: an image
\* that is not the last one is saved, the last one leaves the loop.
AfterNailWatermark(c) ==
    IF c.i < uploads.nails
    THEN /\ click' = [c EXCEPT !.pc = "nailSave",
                               !.saved = Append(@, [label |-> NailBulkLabel(c.i, uploads.nails),
                                                    image |-> c.image,
                                                    applied |-> c.applied])]
         /\ UNCHANGED <<generateDisabled, outputImage, imageActionsHidden>>
    ELSE FinalWatermark(c)

\* The generation call of the click settles.
ApiSettles(ok) ==
    /\ click.pc = "api"
    /\ IF ~ok THEN ClickFailed
       ELSE LET c == [click EXCEPT !.image = Image("image/jpeg"), !.applied = 0]
            IN IF NailBranch
               THEN IF watermarkToggle
                    THEN /\ click' = [c EXCEPT !.pc = "nailWatermark"]
                         /\ UNCHANGED <<generateDisabled, outputImage, imageActionsHidden>>
                    ELSE AfterNailWatermark(c)
               ELSE FinalWatermark(c)
    /\ UNCHANGED <<promptEl, prompt, currentMode, editSectionHidden, bulkDownloadHidden,
                   watermarkToggle, bulkQueue, jobs, bulkList, runs, ops, storedHistory,
                   historyContainer, zip, stage, canvas, uploads, timers>>

\* applyWatermark inside the nail loop settles.
NailWatermarkSettles(env) ==
    /\ click.pc = "nailWatermark"
    /\ AfterNailWatermark([click EXCEPT !.image = applyWatermark(@, env),
                                        !.applied = @ + 1])
    /\ UNCHANGED <<promptEl, prompt, currentMode, editSectionHidden, bulkDownloadHidden,
                   watermarkToggle, bulkQueue, jobs, bulkList, runs, ops, storedHistory,
                   historyContainer, zip, stage, canvas, uploads, timers>>

\* saveToHistory inside the nail loop settles: the next hand image is sent.
NailSaveSettles(env) ==
    /\ click.pc = "nailSave"
    /\ LET last == click.saved[Len(click.saved)]
           s == saveToHistory(last.label, last.image, storedHistory, historyContainer, env)
       IN /\ storedHistory' = s.stored
          /\ historyContainer' = s.rendered
    /\ click' = [click EXCEPT !.pc = "api", !.i = @ + 1,
                              !.calls = Append(@, Strategy(currentMode, uploads))]
    /\ UNCHANGED <<promptEl, prompt, currentMode, generateDisabled, outputImage,
                   imageActionsHidden, editSectionHidden, bulkDownloadHidden,
                   watermarkToggle, bulkQueue, jobs, bulkList, runs, ops, zip, stage,
                   canvas, uploads, timers>>

\* applyWatermark after the strategy settles.
WatermarkSettles(env) ==
    /\ click.pc = "watermark"
    /\ ShowAndSave([click EXCEPT !.image = applyWatermark(@, env), !.applied = @ + 1])
    /\ UNCHANGED <<promptEl, prompt, currentMode, editSectionHidden, bulkDownloadHidden,
                   watermarkToggle, bulkQueue, jobs, bulkList, runs, ops, storedHistory,
                   historyContainer, zip, stage, canvas, uploads, timers>>

\* The last saveToHistory of the click settles: the finally block runs.
SaveSettles(env) ==
    /\ click.pc = "save"
    /\ LET last == click.saved[Len(click.saved)]
           s == saveToHistory(last.label, last.image, storedHistory, historyContainer, env)
       IN /\ storedHistory' = s.stored
          /\ historyContainer' = s.rendered
    /\ click' = [click EXCEPT !.pc = "done"]
    /\ StopLoadingAnimation
    /\ UNCHANGED <<promptEl, prompt, currentMode, outputImage, imageActionsHidden,
                   editSectionHidden, bulkDownloadHidden, watermarkToggle, bulkQueue, jobs,
                   bulkList, runs, ops, zip, stage, canvas, uploads, timers>>

\* generateVideo settles: the video is shown with the action buttons.
VideoSettles(ok) ==
    /\ click.pc = "video"
    /\ IF ~ok THEN ClickFailed
       ELSE /\ click' = [click EXCEPT !.pc = "done"]
            /\ outputImage' = [outputImage EXCEPT !.hidden = TRUE]
            /\ imageActionsHidden' = FALSE
            /\ StopLoadingAnimation
    /\ UNCHANGED <<promptEl, prompt, currentMode, editSectionHidden, bulkDownloadHidden,
                   watermarkToggle, bulkQueue, jobs, bulkList, runs, ops, storedHistory,
                   historyContainer, zip, stage, canvas, uploads, timers>>

\* ------------------------------------------------------------ SpecGenerate
\* One click on Generate for every mode, set of uploads, prompt and
\* watermark setting the page offers outside bulk mode.
UploadSets ==
    {[mediaType |-> t, reference |-> r, garment |-> g, product |-> p, nails |-> n] :
        t \in {"image", "video"}, r \in BOOLEAN, g \in BOOLEAN, p \in BOOLEAN,
        n \in 0..MaxNails}

InitGenerate ==
    /\ uploads \in UploadSets
    /\ currentMode \in (IF uploads.mediaType = "image" THEN ImageModes ELSE VideoModes)
    /\ promptEl \in {<<>>, <<"a">>}
    /\ watermarkToggle \in BOOLEAN
    /\ click = IdleClick
    /\ zip = IdleZip
    /\ stage = IdleStage
    /\ canvas = IdleCanvas
    /\ timers = IdleTimers
    /\ prompt = <<>>
    /\ generateDisabled = FALSE
    /\ outputImage = [src |-> NoImage, hidden |-> TRUE]
    /\ imageActionsHidden = TRUE
    /\ editSectionHidden = FALSE
    /\ bulkDownloadHidden = TRUE
    /\ bulkQueue = <<>>
    /\ jobs = <<>>
    /\ bulkList = {}
    /\ runs = [r \in RunIds |-> IdleRun]
    /\ ops = [o \in OpIds |-> IdleOp]
    /\ storedHistory = <<>>
    /\ historyContainer = <<>>

NextGenerate ==
    \/ GenerateClick
    \/ \E ok \in BOOLEAN : ApiSettles(ok)
    \/ \E env \in WatermarkEnvs : NailWatermarkSettles(env)
    \/ NailSaveSettles(SaveOk)
    \/ \E env \in WatermarkEnvs : WatermarkSettles(env)
    \/ \E env \in SaveEnvs : SaveSettles(env)
    \/ \E ok \in BOOLEAN : VideoSettles(ok)

SpecGenerate == InitGenerate /\ [][NextGenerate]_vars

\* ------------------------------------------------------------ generate click claims
\* The click finds a required upload missing, or neither a prompt nor an
\* upload.
RequiredMissing ==
    \/ currentMode = "clothing" /\ ~uploads.garment
    \/ currentMode \in {"product", "video-shop"} /\ ~uploads.product
    \/ currentMode = "nail" /\ uploads.nails = 0
    \/ promptEl = <<>> /\ NothingUploaded(uploads)

\* C22: outside bulk mode a click on Generate with a required upload
\* missing (garment in clothing mode, product image in product and
\* video-shop mode, hand image in nail mode) or with neither a prompt nor an
\* upload is rejected before any side effect: no upstream call is made, the
\* loading animation is not started, the button is not disabled and the
\* history is unchanged, at the click and ever after.
C22_RejectedBeforeSideEffects ==
    [][/\ (click.pc = "idle" /\ click'.pc # "idle" /\ RequiredMissing) =>
              /\ click'.pc = "rejected"
              /\ click'.calls = <<>>
              /\ UNCHANGED <<generateDisabled, outputImage, imageActionsHidden,
                             editSectionHidden, storedHistory, historyContainer>>
       /\ click.pc = "rejected" =>
              /\ click' = click
              /\ UNCHANGED <<generateDisabled, outputImage, imageActionsHidden,
                             editSectionHidden, storedHistory, historyContainer>>]_vars

\* A click in clothing mode with a prompt and a person image but no garment
\* has been rejected.
C22_Witness ==
    /\ click.pc = "rejected"
    /\ currentMode = "clothing"
    /\ promptEl # <<>>
    /\ uploads.reference
    /\ ~uploads.garment
    /\ ~generateDisabled

\* C29: in clothing mode a click on Generate is either rejected by the
\* validation or calls the multimodal generation with the person image and
\* the garment image; it never makes a call with the reference image only or
\* with the text only.
C29_ClothingCarriesGarment ==
    (currentMode = "clothing" /\ click.pc # "idle") =>
        \/ click.pc = "rejected"
        \/ /\ click.calls # <<>>
           /\ \A k \in 1..Len(click.calls) :
                  click.calls[k] = Call("generateMultimodalImage", <<"reference", "garment">>)

\* C28: with the watermark enabled every generated image that is shown or
\* saved to the history has had the watermark stage applied exactly once, in
\* the standard, clothing, product and nail flows with one or several hand
\* images.
C28_WatermarkedOnce ==
    watermarkToggle =>
        /\ \A k \in 1..Len(click.shown) : click.shown[k].applied = 1
        /\ \A k \in 1..Len(click.saved) : click.saved[k].applied = 1

\* ------------------------------------------------------------ per-job steps
\* C23: a bulk run calls saveToHistory for a job only after the generation
\* and, with the watermark enabled, the watermark stage, with the job set to
\* done and holding the image that is saved, under the label
\* 'Bulk: <prompt>', and only once per job (the job holds no image of an
\* earlier call); a job that ends as error holds no image, so saveToHistory
\* was never called for it.
C23_StepOrder ==
    [][\A r \in RunIds :
          /\ (runs[r].pc # "save" /\ runs'[r].pc = "save") =>
                 LET id == runs'[r].item
                 IN /\ runs[r].pc \in {"generate", "watermark"}
                    /\ runs[r].pc = "generate" => ~watermarkToggle
                    /\ jobs'[id].status = "done"
                    /\ jobs'[id].imageUrl = runs'[r].base64
                    /\ jobs[id].imageUrl = NoImage
          /\ (runs[r].pc = "save" /\ runs'[r].pc # "save") =>
                 \/ storedHistory' = storedHistory
                 \/ storedHistory'[1].prompt = BulkLabel \o jobs[runs[r].item].prompt
          /\ \A id \in DOMAIN jobs' :
                 jobs'[id].status = "error" => jobs'[id].imageUrl = NoImage]_vars

\* ------------------------------------------------------------ generate button
\* Run r has started and has not finished.
Running(r) == runs[r].pc \notin {"idle", "finished"}

\* C26: while a bulk run is in progress the generate button is disabled,
\* whatever other handlers run in between, and it is enabled again only by
\* a step that leaves no run in progress.
C26_DisabledWhileRunning ==
    [][/\ (\E r \in RunIds : Running(r)') => generateDisabled'
       /\ (generateDisabled /\ ~generateDisabled') =>
              \A r \in RunIds : ~Running(r)']_vars

\* ------------------------------------------------------------ SpecHistory
\* Bound: number of saveToHistory calls in a behaviour.
MaxSaves == 6

\* What the browser gives a call: every quota with nothing else failing,
\* and each other failure with room for the whole list.
HistoryEnvs == SaveEnvs \cup {SaveEnv(TRUE, TRUE, q, FALSE, TRUE) : q \in 0..MAX_HISTORY_ITEMS}

\* The number of setItem calls the eviction loop of a call makes.
EvictionRetries(newItem, stored, env) ==
    LET newHistory == Prepend(newItem, stored)
    IN IF env.decodes /\ env.reads /\ ~env.storageError /\ ~SetItemFits(newHistory, env)
       THEN EvictionLoop(newHistory, stored, env, 0).retries
       ELSE 0

\* A handler calls saveToHistory with the k-th image of the session, labelled
\* k, and the call settles; the call is recorded with what the browser gave
\* it and the history it found.
HistorySave(env) ==
    /\ stage.saves < MaxSaves
    /\ LET label == Decimal(stage.saves + 1)
           s == saveToHistory(label, Image("image/png"), storedHistory, historyContainer, env)
           newItem == HistoryItem(label, Image("image/jpeg"))
       IN /\ storedHistory' = s.stored
          /\ historyContainer' = s.rendered
          /\ stage' = [fixed |-> TRUE, saves |-> stage.saves + 1, env |-> env,
                       before |-> storedHistory, newItem |-> newItem,
                       retries |-> EvictionRetries(newItem, storedHistory, env)]
    /\ UNCHANGED <<promptEl, prompt, currentMode, generateDisabled, outputImage,
                   imageActionsHidden, editSectionHidden, bulkDownloadHidden,
                   watermarkToggle, bulkQueue, jobs, bulkList, runs, ops, zip, canvas,
                   uploads, click, timers>>

InitHistory ==
    /\ stage = [fixed |-> TRUE, saves |-> 0]
    /\ storedHistory = <<>>
    /\ historyContainer = <<>>
    /\ zip = IdleZip
    /\ canvas = IdleCanvas
    /\ uploads = IdleUploads
    /\ click = IdleClick
    /\ timers = IdleTimers
    /\ promptEl = <<>>
    /\ prompt = <<>>
    /\ currentMode = "standard"
    /\ generateDisabled = FALSE
    /\ outputImage = [src |-> NoImage, hidden |-> TRUE]
    /\ imageActionsHidden = TRUE
    /\ editSectionHidden = FALSE
    /\ bulkDownloadHidden = TRUE
    /\ watermarkToggle = TRUE
    /\ bulkQueue = <<>>
    /\ jobs = <<>>
    /\ bulkList = {}
    /\ runs = [r \in RunIds |-> IdleRun]
    /\ ops = [o \in OpIds |-> IdleOp]

NextHistory == \E env \in HistoryEnvs : HistorySave(env)

SpecHistory == InitHistory /\ [][NextHistory]_vars

\* ------------------------------------------------------------ history claims
IsPrefix(s, t) == Len(s) <= Len(t) /\ s = SubSeq(t, 1, Len(s))

\* The last call reached setItem and the whole new list did not fit.
QuotaExceeded ==
    /\ stage.saves > 0
    /\ stage.env.decodes /\ stage.env.reads /\ ~stage.env.storageError
    /\ ~SetItemFits(Prepend(stage.newItem, stage.before), stage.env)

\* C24: the eviction loop of saveToHistory ends after at most length - 1
\* retries; if a retry succeeds the stored history is a non-empty prefix of
\* the new list, starting with the new item; if every retry fails the
\* stored history is the one stored before and the new item is not in it.
C24_EvictionOutcome ==
    QuotaExceeded =>
        LET newHistory == Prepend(stage.newItem, stage.before)
            fitting == {n \in 1..(Len(newHistory) - 1) :
                            SetItemFits(SubSeq(newHistory, 1, n), stage.env)}
        IN /\ stage.retries <= Len(newHistory) - 1
           /\ IF fitting # {}
              THEN /\ storedHistory # <<>>
                   /\ IsPrefix(storedHistory, newHistory)
                   /\ storedHistory[1] = stage.newItem
              ELSE /\ storedHistory = stage.before
                   /\ stage.newItem \notin Range(storedHistory)

\* The list of five did not fit, two retries failed and the third stored the
\* new item with one older item.
C24_Witness ==
    /\ QuotaExceeded
    /\ Len(stage.before) = MAX_HISTORY_ITEMS
    /\ stage.retries = 3
    /\ Len(storedHistory) = 2
    /\ storedHistory[1] = stage.newItem

\* The last call stored its new item.
SaveSucceeded == stage.saves > 0 /\ storedHistory # stage.before

\* The number of the call that saved the item.
SaveNumber(item) == CHOOSE k \in 1..MaxSaves : Decimal(k) = item.prompt

NewestFirst(history) ==
    \A a, b \in 1..Len(history) : a < b => SaveNumber(history[a]) > SaveNumber(history[b])

\* C27 as stated: the stored history holds at most MAX_HISTORY_ITEMS
\* entries, newest first, and a successful save puts the new item first,
\* keeps the previous entries in their order behind it and drops only the
\* oldest entries beyond the limit.
C27_DropsOnlyBeyondLimit ==
    /\ Len(storedHistory) <= MAX_HISTORY_ITEMS
    /\ NewestFirst(storedHistory)
    /\ SaveSucceeded =>
           LET all == <<stage.newItem>> \o stage.before
           IN storedHistory = SubSeq(all, 1, IF Len(all) < MAX_HISTORY_ITEMS THEN Len(all)
                                             ELSE MAX_HISTORY_ITEMS)

\* C27, amended: the stored history holds at most MAX_HISTORY_ITEMS
\* entries, newest first; a successful save puts the new item first and
\* keeps previous entries in their order behind it, dropping only oldest
\* entries: those beyond the limit when the list fits into the storage, and
\* otherwise as many more as the eviction loop needs; a save that does not
\* store its item leaves the stored history as it was.
C27_NewestFirstPrefix ==
    /\ Len(storedHistory) <= MAX_HISTORY_ITEMS
    /\ NewestFirst(storedHistory)
    /\ stage.saves > 0 =>
           LET all == <<stage.newItem>> \o stage.before
               limited == SubSeq(all, 1, IF Len(all) < MAX_HISTORY_ITEMS THEN Len(all)
                                         ELSE MAX_HISTORY_ITEMS)
           IN IF stage.newItem \in Range(storedHistory)
              THEN /\ storedHistory[1] = stage.newItem
                   /\ IsPrefix(storedHistory, limited)
                   /\ QuotaExceeded \/ storedHistory = limited
              ELSE storedHistory = stage.before

\* The sixth save found five entries stored and dropped the oldest one.
C27_Witness ==
    /\ stage.saves = 6
    /\ Len(stage.before) = MAX_HISTORY_ITEMS
    /\ Len(storedHistory) = MAX_HISTORY_ITEMS
    /\ storedHistory[1] = stage.newItem
    /\ stage.before[MAX_HISTORY_ITEMS] \notin Range(storedHistory)

\* ------------------------------------------------------------ SpecParse
\* Bound: number of parts of a candidate.
MaxParts == 2

PartsOfLen(n) ==
    [1..n -> {Part(data, mime, text) :
                 data \in {"", "d"}, mime \in {"", "image/jpeg"}, text \in {"", "no"}}]

FinishReasons == {"", "STOP", "SAFETY", "IMAGE_OTHER", "MAX_TOKENS"}

\* A rejected call, a response without candidates, a candidate without
\* parts, and every candidate with up to MaxParts parts.
ParseResponses ==
    {RejectedResponse, EmptyResponse}
    \cup {[rejected |-> FALSE, candidates |-> <<Candidate(FALSE, <<>>, f)>>] :
            f \in FinishReasons}
    \cup UNION {{[rejected |-> FALSE, candidates |-> <<Candidate(TRUE, parts, f)>>] :
                    parts \in PartsOfLen(n), f \in FinishReasons} : n \in 0..MaxParts}

InitParse == InitStage(ParseResponses, {WatermarkEnv("text", "none", TRUE, TRUE)})

SpecParse == InitParse /\ [][NextWatermark]_vars

\* ------------------------------------------------------------ parsing claim
\* The parts of the first candidate of the response, none when there is no
\* candidate or it has no parts.
ResponseParts ==
    IF stage.response.rejected \/ stage.response.candidates = <<>> THEN <<>>
    ELSE IF stage.response.candidates[1].hasParts THEN stage.response.candidates[1].parts
    ELSE <<>>

HasImagePart == \E k \in 1..Len(ResponseParts) : ResponseParts[k].data # ""
HasTextPart == \E k \in 1..Len(ResponseParts) : ResponseParts[k].text # ""
HasFinishReason ==
    /\ ~stage.response.rejected
    /\ stage.response.candidates # <<>>
    /\ stage.response.candidates[1].finishReason \notin {"", "STOP"}

\* C25: generateImage returns the first part with non-empty inline data,
\* with image/png for a missing MIME type; without such a part it throws the
\* text of the first text part; without a text part it throws the message
\* of a finish reason other than STOP; otherwise the no-image error. It
\* never returns without an image, and every failure sets the bulk job to
\* error.
C25_ParsingPriority ==
    [][\A r \in RunIds :
          (runs[r].pc = "generate" /\ runs'[r] # runs[r]) =>
              LET result == generateImage(stage.response)
                  parts == ResponseParts
                  job == jobs'[runs[r].item]
              IN /\ result.ok = HasImagePart
                 /\ result.ok =>
                        LET k == CHOOSE k \in 1..Len(parts) :
                                     /\ parts[k].data # ""
                                     /\ \A j \in 1..(k - 1) : parts[j].data = ""
                        IN /\ result.value.mime =
                                  (IF parts[k].mime = "" THEN "image/png" ELSE parts[k].mime)
                           /\ runs'[r].base64 = result.value
                           /\ job.status # "error"
                 /\ ~result.ok => job.status = "error"
                 /\ (~stage.response.rejected /\ ~HasImagePart) =>
                        IF HasTextPart
                        THEN \E k \in 1..Len(parts) :
                                 /\ parts[k].text # ""
                                 /\ \A j \in 1..(k - 1) : parts[j].text = ""
                                 /\ result.error = parts[k].text
                        ELSE IF HasFinishReason
                        THEN result = handleGenerationError(stage.response.candidates[1])
                        ELSE result.error = "The model failed to generate an image."]_vars

\* A response with a text part before its image part and the finish reason
\* SAFETY gave the image, and the job is done.
C25_Witness ==
    /\ Len(ResponseParts) = 2
    /\ ResponseParts[1].text # "" /\ ResponseParts[1].data = ""
    /\ ResponseParts[2].data # ""
    /\ HasFinishReason
    /\ jobs[<<1, 1>>].status = "done"
    /\ jobs[<<1, 1>>].imageUrl # NoImage

\* ------------------------------------------------------------ loading timers
\* Bound: number of operations between startLoadingAnimation and their
\* finally block at the same time.
MaxOverlap == 2
\* Bound: number of operations started in a behaviour.
MaxStarts == 3

\* The id window.setInterval returns: one no active interval has.
FreshInterval(active) ==
    CHOOSE n \in 1..(Cardinality(active) + 1) :
        n \notin active /\ \A m \in 1..(n - 1) : m \in active

\* The intervals of startLoadingAnimation: both variables are assigned a
\* new interval, whatever they held.
StartTimers(t) ==
    LET loading == FreshInterval(t.active)
        progress == FreshInterval(t.active \cup {loading})
    IN [t EXCEPT !.loadingInterval = loading, !.progressInterval = progress,
                 !.active = @ \cup {loading, progress}]

\* The intervals of stopLoadingAnimation: the two the variables hold are
\* cleared.
StopTimers(t) == [t EXCEPT !.active = @ \ {t.loadingInterval, t.progressInterval}]

RemoveAt(s, k) == SubSeq(s, 1, k - 1) \o SubSeq(s, k + 1, Len(s))

\* The label an operation saves its image under.
TimedLabel(kind) ==
    IF kind = "edit" THEN EditLabel \o EditPrompt
    ELSE IF kind = "upscale" THEN UpscaleLabel
    ELSE IF kind = "remix" THEN RemixedPrompt
    ELSE HistoryPrompt(currentMode, prompt)

\* A click on Generate outside bulk mode, on Edit, on Upscale or on Remix,
\* up to the first call of the model.
TimedClick(kind) ==
    /\ kind \in OpKinds
    /\ Len(timers.inflight) < MaxOverlap
    /\ timers.started < MaxStarts
    /\ IF kind = "generate"
       THEN ~generateDisabled /\ currentMode # "bulk"
            /\ Validate(currentMode, promptEl, uploads) = ""
       ELSE OutputShown /\ (IF kind = "edit" THEN ~editSectionHidden ELSE ~imageActionsHidden)
    /\ prompt' = IF kind = "generate" THEN promptEl ELSE prompt
    /\ StartLoadingAnimation
    /\ timers' = [StartTimers(timers) EXCEPT
                     !.started = @ + 1,
                     !.inflight = Append(@, [kind |-> kind,
                                             pc |-> IF kind = "remix" THEN "remixPrompt"
                                                    ELSE "api"])]
    /\ UNCHANGED <<promptEl, currentMode, bulkDownloadHidden, watermarkToggle, bulkQueue,
                   jobs, bulkList, runs, ops, storedHistory, historyContainer, zip, stage,
                   canvas, uploads, click>>

\* The catch and finally blocks of the k-th operation in flight.
TimedFailed(k) ==
    /\ StopLoadingAnimation
    /\ timers' = [StopTimers(timers) EXCEPT !.inflight = RemoveAt(@, k)]

\* generateRemixPrompt of a remix settles.
TimedRemixPromptSettles(k, ok) ==
    /\ k \in 1..Len(timers.inflight)
    /\ timers.inflight[k].pc = "remixPrompt"
    /\ IF ok
       THEN /\ promptEl' = RemixedPrompt
            /\ timers' = [timers EXCEPT !.inflight[k].pc = "api"]
            /\ UNCHANGED generateDisabled
       ELSE /\ TimedFailed(k)
            /\ UNCHANGED promptEl
    /\ UNCHANGED <<prompt, currentMode, outputImage, imageActionsHidden, editSectionHidden,
                   bulkDownloadHidden, watermarkToggle, bulkQueue, jobs, bulkList, runs,
                   ops, storedHistory, historyContainer, zip, stage, canvas, uploads,
                   click>>

\* The image call of the k-th operation settles; with the watermark toggle
\* unchecked the image is shown and saveToHistory is called in the same task.
TimedApiSettles(k, ok) ==
    /\ k \in 1..Len(timers.inflight)
    /\ timers.inflight[k].pc = "api"
    /\ ~watermarkToggle
    /\ IF ok
       THEN /\ outputImage' = [src |-> Image("image/png"), hidden |-> FALSE]
            /\ imageActionsHidden' = FALSE
            /\ timers' = [timers EXCEPT !.inflight[k].pc = "save"]
            /\ UNCHANGED generateDisabled
       ELSE /\ TimedFailed(k)
            /\ UNCHANGED <<outputImage, imageActionsHidden>>
    /\ UNCHANGED <<promptEl, prompt, currentMode, editSectionHidden, bulkDownloadHidden,
                   watermarkToggle, bulkQueue, jobs, bulkList, runs, ops, storedHistory,
                   historyContainer, zip, stage, canvas, uploads, click>>

\* saveToHistory of the k-th operation settles: the finally block runs.
TimedSaveSettles(k, env) ==
    /\ k \in 1..Len(timers.inflight)
    /\ timers.inflight[k].pc = "save"
    /\ LET s == saveToHistory(TimedLabel(timers.inflight[k].kind), Image("image/png"),
                              storedHistory, historyContainer, env)
       IN /\ storedHistory' = s.stored
          /\ historyContainer' = s.rendered
    /\ StopLoadingAnimation
    /\ timers' = [StopTimers(timers) EXCEPT !.inflight = RemoveAt(@, k)]
    /\ UNCHANGED <<promptEl, prompt, currentMode, outputImage, imageActionsHidden,
                   editSectionHidden, bulkDownloadHidden, watermarkToggle, bulkQueue, jobs,
                   bulkList, runs, ops, zip, stage, canvas, uploads, click>>

\* ------------------------------------------------------------ SpecTimers
\* The page in standard mode with a prompt typed and the watermark off.
InitTimers ==
    /\ timers = IdleTimers
    /\ zip = IdleZip
    /\ stage = IdleStage
    /\ canvas = IdleCanvas
    /\ uploads = IdleUploads
    /\ click = IdleClick
    /\ promptEl = <<"a">>
    /\ prompt = <<>>
    /\ currentMode = "standard"
    /\ generateDisabled = FALSE
    /\ outputImage = [src |-> NoImage, hidden |-> TRUE]
    /\ imageActionsHidden = TRUE
    /\ editSectionHidden = FALSE
    /\ bulkDownloadHidden = TRUE
    /\ watermarkToggle = FALSE
    /\ bulkQueue = <<>>
    /\ jobs = <<>>
    /\ bulkList = {}
    /\ runs = [r \in RunIds |-> IdleRun]
    /\ ops = [o \in OpIds |-> IdleOp]
    /\ storedHistory = <<>>
    /\ historyContainer = <<>>

NextTimers ==
    \/ \E kind \in OpKinds : TimedClick(kind)
    \/ \E k \in 1..MaxOverlap, ok \in BOOLEAN : TimedRemixPromptSettles(k, ok)
    \/ \E k \in 1..MaxOverlap, ok \in BOOLEAN : TimedApiSettles(k, ok)
    \/ \E k \in 1..MaxOverlap : TimedSaveSettles(k, SaveOk)
    \/ \E k \in 1..MAX_HISTORY_ITEMS : HistoryClick(k)

SpecTimers == InitTimers /\ [][NextTimers]_vars

\* ------------------------------------------------------------ timer claim
\* C30: once every operation that called startLoadingAnimation has
\* finished, no loading-message interval and no progress interval is
\* active, for any interleaving of generate, edit, upscale and remix.
C30_NoTimerLeak ==
    timers.inflight = <<>> => timers.active = {}
====
